---------------------------- MODULE Spec2Model ----------------------------
(***************************************************************************)
(* A model of the decoder front end of audiowmark: the job splitter and    *)
(* the batch executor of the speed detector (wmspeed.cc), the bit-quality  *)
(* kernel and the sync finder (syncfinder.cc, as contained in              *)
(* audiowmark.cc).                                                         *)
(*                                                                         *)
(* The module holds several specifications over one set of variables.      *)
(* Each specification drives the variables of one part of the program and  *)
(* leaves the others at their initial value:                               *)
(*   SpecSplit  split_jobs, statement by statement                         *)
(*   SpecBQ     SyncFinder::bit_quality on bounded magnitudes              *)
(*   SpecRun    one run_search pass of detect_speed on the thread pool     *)
(*   SpecSearch SyncFinder::search for one key                             *)
(*   SpecSpeed  the scores of one pass of detect_speed and their selection *)
(*   SpecDetect detect_speed from the length test to the returned vector   *)
(*   SpecBits   get_sync_bits, the sync pattern of a key                     *)
(*   SpecFFT    sync_fft_parallel, job by job                                *)
(*   SpecJobs   SpeedSearch::get_jobs, the speeds a scan pass tests          *)
(*   SpecCmp    SpeedSync::compare_bits, the cursors over cmp_states         *)
(*   SpecWav    StdoutWavOutputStream, open, write_frames and close          *)
(*   SpecKeys   SyncFinder::search over a key list, jobs run in order       *)
(*   SpecSelect the selection steps of search on given coarse scores       *)
(***************************************************************************)
EXTENDS Integers, Sequences, FiniteSets, TLC

VARIABLES
  sj_pc,        \* split_jobs: position in the function
  sj_in,        \* split_jobs: the arguments <<jobs, threads>> as passed
  sj,           \* split_jobs: [jobs, split, ok] - remaining jobs, result vector, assert
  bq_pc,        \* bit_quality: "call" before, "ret" after the call
  bq_in,        \* bit_quality: the arguments [umag, dmag, bit]
  bq_out,       \* bit_quality: the returned value, a fraction [n, d]
  rs_pc,        \* run_search: position of the main thread in the lambda
  rs_cfg,       \* run_search: [n_jobs, n_threads] - jobs.size(), thread_pool.n_threads()
  rs_loop,      \* run_search: [split, start, count, i] - batches left, start, count, loop index
  pool_queue,   \* ThreadPool: the jobs added and not yet taken by a worker, oldest first
  pool_running, \* ThreadPool: the jobs the workers are running
  sync_matrix,  \* SpeedSync::sync_matrix of each SpeedSync: "empty", "writing", "ready", "freed"
  result_scores, \* SpeedSync::result_scores of each SpeedSync, in the order appended
  sf_pc,        \* SyncFinder::search: position of the calling thread
  sf_in,        \* SyncFinder::search: the input [len, fc, mode, q, fill]
  sf_shift,     \* search_approx: sync_shift of the loop over the coarse shifts
  fft_db,       \* search_approx: the rows of fft_db, each the sample its frame starts at
  sf_queue,     \* the sync finder's ThreadPool: jobs added, not yet taken, oldest first
  sf_running,   \* the sync finder's ThreadPool: jobs the workers are running
  key_scores,   \* SearchKeyResult::scores of the key
  refine_scores,\* search_refine: its local vector result_scores
  sync_scores,  \* KeyResult::sync_scores, the scores search returns
  sp_pc,        \* detect_speed: position of the calling thread in a pass
  sp_in,        \* detect_speed: the input of the pass [centers, quality]
  sp_pending,   \* the search jobs of the pass that have not completed
  sp_result_scores, \* SpeedSync::result_scores of each SpeedSync of the pass
  sp_scores,    \* KeySpeedSearch::scores
  sp_out,       \* what is made of the scores: the selection, or the reported speed
  dt_pc,        \* detect_speed: position of the calling thread in the function
  dt_in,        \* detect_speed: [n_frames, keys, scan3] - the signal, key_list, scan3 scores
  dt_searches,  \* detect_speed: the keys of key_speed_search_vec, one SpeedSearch each
  dt_jobs,      \* detect_speed: the number of jobs added to the thread pool so far
  dt_pass,      \* detect_speed: the run_search passes done
  dt_k,         \* detect_speed: index of the final loop over key_speed_search_vec
  dt_results,   \* detect_speed: the vector results
  get_n_best,   \* Params::get_n_best, set before the program runs
  sk_pc,        \* SyncFinder::search over key_list: position of the calling thread
  sk_in,        \* SyncFinder::search over key_list: [keys, len, fc, mode, fill, q, test_no_sync]
  search_key_results, \* search: the vector search_key_results, [key, scores] each
  sk_k,         \* search: index k of the loop over search_key_results
  key_results,  \* search: the vector key_results, [key, sync_scores] each
  sl_pc,        \* the selection steps of search: the step to take next
  sl_in,        \* the selection steps of search: [mode, scores] - the scores of search_approx
  sl_prev,      \* the selection steps of search: the scores before the last step
  sl_scores,    \* the selection steps of search: search_scores
  gs_pc,        \* get_sync_bits: position in the function
  gs_in,        \* get_sync_bits: [key, mode], the key by what its generators give
  gs_bit,       \* get_sync_bits: bit of the outer loop
  gs_sync_bits, \* get_sync_bits: the vector sync_bits
  ff_pc,        \* sync_fft_parallel: position of the calling thread
  ff_in,        \* sync_fft_parallel: [len, fc, index] - the signal and the shift
  ff_jobs,      \* sync_fft_parallel: the start frames of the jobs that have not run
  partial_fft_results, \* sync_fft_parallel: the vector partial_fft_results, as pushed
  fft_out_db,   \* sync_fft_parallel: the rows of fft_out_db, one have_frames entry each
  gj_pc,       \* SpeedSearch::get_jobs: position in the function
  gj_in,       \* SpeedSearch::get_jobs: [n_steps, n_center_steps, speed] - scan_params and the speed
  gj_c,        \* SpeedSearch::get_jobs: c of the loop over the centers
  speed_sync,  \* SpeedSearch::speed_sync, the center of each SpeedSync
  gj_jobs,     \* SpeedSearch::get_jobs: the vector jobs, of each Jobs the speeds its search jobs test
  cb_pc,       \* SpeedSync::compare: position in the calls of compare_bits
  cb_in,       \* SpeedSync::compare: [sync_bits, speed, rows] - sync_bits, relative_speed as <<n, d>>, sync_matrix.rows()
  cb_block,    \* compare_bits: the template argument BLOCK
  cb_mi,       \* compare_bits: mi of the loop over sync_bits
  cb_begin,    \* compare_bits: the cursor begin, as an index into cmp_states
  cb_end,      \* compare_bits: the cursor end, as an index into cmp_states
  cb_rows,     \* compare_bits: the rows of sync_matrix read in the last pass of the loop
  m_state,     \* StdoutWavOutputStream: NEW, OPEN or CLOSED
  m_close_padding, \* StdoutWavOutputStream: the padding bytes close has to write
  ws_in,       \* StdoutWavOutputStream::open: the arguments of the last call
  ws_stdout,   \* stdout: [error, padding] - the error indicator, the padding bytes put
  ws_last,     \* the last call: [op, ret, wrote] - the method, its return, the padding bytes it put
  ws_closes,   \* the calls of close since open returned no error
  ws_calls     \* the calls made so far

splitVars == <<sj_pc, sj_in, sj>>
bqVars    == <<bq_pc, bq_in, bq_out>>
runVars   == <<rs_pc, rs_cfg, rs_loop, pool_queue, pool_running, sync_matrix, result_scores>>
searchVars == <<sf_pc, sf_in, sf_shift, fft_db, sf_queue, sf_running,
                key_scores, refine_scores, sync_scores>>
speedVars == <<sp_pc, sp_in, sp_pending, sp_result_scores, sp_scores, sp_out>>
detectVars == <<dt_pc, dt_in, dt_searches, dt_jobs, dt_pass, dt_k, dt_results>>
paramsVars == <<get_n_best>>
keysVars   == <<sk_pc, sk_in, search_key_results, sk_k, key_results>>
selectVars == <<sl_pc, sl_in, sl_prev, sl_scores>>
bitsVars   == <<gs_pc, gs_in, gs_bit, gs_sync_bits>>
fftVars    == <<ff_pc, ff_in, ff_jobs, partial_fft_results, fft_out_db>>
jobsVars == <<gj_pc, gj_in, gj_c, speed_sync, gj_jobs>>
cmpVars == <<cb_pc, cb_in, cb_block, cb_mi, cb_begin, cb_end, cb_rows>>
wavVars == <<m_state, m_close_padding, ws_in, ws_stdout, ws_last, ws_closes, ws_calls>>
vars      == <<sj_pc, sj_in, sj, bq_pc, bq_in, bq_out,
               rs_pc, rs_cfg, rs_loop, pool_queue, pool_running, sync_matrix, result_scores,
               sf_pc, sf_in, sf_shift, fft_db, sf_queue, sf_running,
               key_scores, refine_scores, sync_scores,
               sp_pc, sp_in, sp_pending, sp_result_scores, sp_scores, sp_out,
               dt_pc, dt_in, dt_searches, dt_jobs, dt_pass, dt_k, dt_results,
               get_n_best,
               sk_pc, sk_in, search_key_results, sk_k, key_results,
               sl_pc, sl_in, sl_prev, sl_scores,
               gs_pc, gs_in, gs_bit, gs_sync_bits,
               ff_pc, ff_in, ff_jobs, partial_fft_results, fft_out_db,
               gj_pc, gj_in, gj_c, speed_sync, gj_jobs,
               cb_pc, cb_in, cb_block, cb_mi, cb_begin, cb_end, cb_rows,
               m_state, m_close_padding, ws_in, ws_stdout, ws_last, ws_closes, ws_calls>>

\* what the actions of one part leave alone: the variables of the other parts
exceptSplit  == <<bqVars, runVars, searchVars, speedVars, detectVars, paramsVars, keysVars, selectVars, bitsVars, fftVars, jobsVars, cmpVars, wavVars>>
exceptBQ     == <<splitVars, runVars, searchVars, speedVars, detectVars, paramsVars, keysVars, selectVars, bitsVars, fftVars, jobsVars, cmpVars, wavVars>>
exceptRun    == <<splitVars, bqVars, searchVars, speedVars, detectVars, paramsVars, keysVars, selectVars, bitsVars, fftVars, jobsVars, cmpVars, wavVars>>
exceptSearch == <<splitVars, bqVars, runVars, speedVars, detectVars, paramsVars, keysVars, selectVars, bitsVars, fftVars, jobsVars, cmpVars, wavVars>>
exceptSpeed  == <<splitVars, bqVars, runVars, searchVars, detectVars, paramsVars, keysVars, selectVars, bitsVars, fftVars, jobsVars, cmpVars, wavVars>>
exceptDetect == <<splitVars, bqVars, runVars, searchVars, speedVars, paramsVars, keysVars, selectVars, bitsVars, fftVars, jobsVars, cmpVars, wavVars>>
exceptKeys   == <<splitVars, bqVars, runVars, searchVars, speedVars, detectVars, paramsVars, selectVars, bitsVars, fftVars, jobsVars, cmpVars, wavVars>>
exceptSelect == <<splitVars, bqVars, runVars, searchVars, speedVars, detectVars, paramsVars, keysVars, bitsVars, fftVars, jobsVars, cmpVars, wavVars>>
exceptBits   == <<splitVars, bqVars, runVars, searchVars, speedVars, detectVars, paramsVars, keysVars, selectVars, fftVars, jobsVars, cmpVars, wavVars>>
exceptFFT    == <<splitVars, bqVars, runVars, searchVars, speedVars, detectVars, paramsVars, keysVars, selectVars, bitsVars, jobsVars, cmpVars, wavVars>>
exceptJobs == <<splitVars, bqVars, runVars, searchVars, speedVars, detectVars, paramsVars, keysVars, selectVars, bitsVars, fftVars, cmpVars, wavVars>>
exceptCmp  == <<splitVars, bqVars, runVars, searchVars, speedVars, detectVars, paramsVars, keysVars, selectVars, bitsVars, fftVars, jobsVars, wavVars>>
exceptWav == <<splitVars, bqVars, runVars, searchVars, speedVars, detectVars, paramsVars, keysVars, selectVars, bitsVars, fftVars, jobsVars, cmpVars>>

-----------------------------------------------------------------------------
(* Bounds of the model *)

MaxJobs    == 14   \* split_jobs is called with 0..MaxJobs jobs
MaxThreads == 4    \* ... and 1..MaxThreads threads
MaxMag     == 5    \* magnitudes are -MaxMag..MaxMag, in units of one half
MaxBit     == 3    \* bit indices 0..MaxBit
MaxSync    == 4    \* run_search is given 0..MaxSync SpeedSync jobs
MaxPool    == 3    \* the pool has 1..MaxPool worker threads
MaxFrames  == 4    \* the signal is up to MaxFrames frames and a few samples long
BlockFrames == 1   \* mark_sync_frame_count() + mark_data_frame_count(), frames of a block
frames_per_job == 1 \* frames per FFT job and start frames per search job (256 in the source)
SearchThreads == 2 \* worker threads of the sync finder's pool
MaxQ       == 4    \* sync qualities of the input are -MaxQ..MaxQ
sync_threshold2 == 1 \* Params::sync_threshold2, in the unit of the sync qualities
MaxNBest   == 1    \* Params::get_n_best is 0..MaxNBest
MaxQuality == 1    \* the sync quality a compare finds is 0..MaxQuality
n_best     == 2    \* detect_speed: the peaks kept after the first pass (5 or 15 in the source)
SmoothDistance == 2 \* score_smooth_find_best: speeds within this distance count (step * distance)
speed_sync_threshold == 0 \* detect_speed: the quality a reported speed must exceed
UnitSpeed  == 3    \* the speed 1.0, the center of the first SpeedSync
MaxKeys    == 2    \* detect_speed is given a key_list of 0..MaxKeys keys
SampleRate == 8    \* in_data.sample_rate(), in samples per second
MaxSamples == 3    \* in_data.n_frames() is 0..MaxSamples
frames_pad_start == 1 \* Params::frames_pad_start, in frames
MaxList    == 3    \* the selection steps are given every list of 0..MaxList scores ...
MaxRaw     == 2    \* ... with raw qualities -MaxRaw..MaxRaw
LongLen    == 13   \* ... and lists of LongLen scores with a peak at every other score
sync_bits  == 2    \* Params::sync_bits, the sync bits of a pattern (6 in the program)
sync_frames_per_bit == 2 \* Params::sync_frames_per_bit, the frames of a sync bit
mark_data_frame_count == 1 \* mark_data_frame_count(), the data frames of a block
bands_per_frame == 2 \* Params::bands_per_frame, the size of an UpDownArray
min_band   == 1    \* Params::min_band, the lowest band a generator draws
MaxNSteps  == 2    \* a scan pass has scan_params.n_steps in 0..MaxNSteps
MaxCenterSteps == 2 \* ... and scan_params.n_center_steps in 0..MaxCenterSteps
MaxCalls   == 4    \* a StdoutWavOutputStream gets at most MaxCalls calls
MaxRows    == 24   \* sync_matrix has 0..MaxRows rows

-----------------------------------------------------------------------------
(* Program constants *)

NSteps == 1   \* scan2.n_steps, the pass modelled: 2 * NSteps + 1 search jobs per SpeedSync

\* Params and SyncFinder constants (syncfinder.hh)
frame_size          == 1024
sync_search_step    == 256
sync_search_fine    == 8
local_mean_distance == 20

-----------------------------------------------------------------------------
(* Helpers on sequences and fractions *)

RECURSIVE SeqSum(_)
SeqSum(s) == IF s = <<>> THEN 0 ELSE Head(s) + SeqSum(Tail(s))

\* fractions n/d with d > 0; magnitudes are IEEE floats in the program, the
\* model computes their quotients exactly
Frac(n, d)  == IF d < 0 THEN [n |-> -n, d |-> -d] ELSE [n |-> n, d |-> d]
FracNeg(a)  == [n |-> -a.n, d |-> a.d]
FracLe(a,b) == a.n * b.d <= b.n * a.d
FracEq(a,b) == a.n * b.d = b.n * a.d
FracInt(k)  == [n |-> k, d |-> 1]
FracZero    == FracInt(0)
FracLt(a,b) == a.n * b.d < b.n * a.d
Abs(x)      == IF x < 0 THEN -x ELSE x
Min(a, b)   == IF a < b THEN a ELSE b
Max(a, b)   == IF a > b THEN a ELSE b

RECURSIVE GCD(_, _)
GCD(a, b) == IF b = 0 THEN a ELSE GCD(b, a % b)

\* a fraction in lowest terms, so that equal values are equal records
FracNorm(n, d) ==
  LET g == GCD(Abs(n), Abs(d))
  IN  IF n = 0 THEN FracInt(0) ELSE Frac(n \div g, d \div g)
FracSub(a, b)  == FracNorm(a.n * b.d - b.n * a.d, a.d * b.d)
FracAbs(a)     == [n |-> Abs(a.n), d |-> a.d]
FracTimes(a, k) == FracNorm(a.n * k, a.d)

-----------------------------------------------------------------------------
(* split_jobs (wmspeed.cc) *)

\* the state of one call: the parameter `jobs` (decremented by the lambda),
\* the vector `split_jobs` and whether the lambda's assert has held so far
SplitState(J) == [jobs |-> J, split |-> <<>>, ok |-> TRUE]

\* update_split_jobs without the test of j: a batch of 0 jobs is pushed too
update_split_jobs_push_zero(st, j) ==
  [jobs |-> st.jobs - j, split |-> Append(st.split, j),
   ok |-> st.ok /\ j >= 0 /\ j <= st.jobs]

\* the lambda update_split_jobs: assert (j >= 0 && j <= jobs); if (j) { push_back (j); jobs -= j; }
update_split_jobs(st, j) ==
  IF j # 0
    THEN [jobs |-> st.jobs - j, split |-> Append(st.split, j),
          ok |-> st.ok /\ j >= 0 /\ j <= st.jobs]
    ELSE [st EXCEPT !.ok = st.ok /\ j >= 0 /\ j <= st.jobs]

\* a loop that stops one block of threads too early: while (jobs > 3 * threads)
split_while_cond_3(st, threads) == st.jobs > 3 * threads

\* the loop condition: while (jobs > 2 * threads)
split_while_cond(st, threads) == st.jobs > 2 * threads

\* a half batch rounded down: jobs / 2
split_half_floor(st) == st.jobs \div 2

\* the half batch: (jobs + 1) / 2
split_half(st) == (st.jobs + 1) \div 2

\* the condition of the halving step: if (jobs > threads)
split_if_cond(st, threads) == st.jobs > threads

\* the three statements of split_jobs after its loop
split_jobs_tail(st, threads) ==
  LET h == IF split_if_cond(st, threads) THEN update_split_jobs(st, split_half(st)) ELSE st
  IN  update_split_jobs(h, h.jobs)

\* the whole function, as an operator (used where the program calls it)
RECURSIVE split_jobs_from(_, _)
split_jobs_from(st, threads) ==
  IF split_while_cond(st, threads)
    THEN split_jobs_from(update_split_jobs(st, threads), threads)
    ELSE split_jobs_tail(st, threads)

split_jobs(jobs, threads) == split_jobs_from(SplitState(jobs), threads).split

\* the same function one statement at a time
SplitInit ==
  /\ sj_in \in (0..MaxJobs) \X (1..MaxThreads)
  /\ sj = SplitState(sj_in[1])
  /\ sj_pc = "while"

SplitWhile ==
  /\ sj_pc = "while"
  /\ IF split_while_cond(sj, sj_in[2])
       THEN /\ sj' = update_split_jobs(sj, sj_in[2])
            /\ sj_pc' = "while"
       ELSE /\ sj' = sj
            /\ sj_pc' = "if"
  /\ UNCHANGED <<sj_in, exceptSplit>>

SplitHalf ==
  /\ sj_pc = "if"
  /\ sj' = IF split_if_cond(sj, sj_in[2]) THEN update_split_jobs(sj, split_half(sj)) ELSE sj
  /\ sj_pc' = "rest"
  /\ UNCHANGED <<sj_in, exceptSplit>>

\* a function that returns without its last statement
SplitRest_skipped ==
  /\ sj_pc = "rest"
  /\ sj' = sj
  /\ sj_pc' = "return"
  /\ UNCHANGED <<sj_in, exceptSplit>>

SplitRest ==
  /\ sj_pc = "rest"
  /\ sj' = update_split_jobs(sj, sj.jobs)
  /\ sj_pc' = "return"
  /\ UNCHANGED <<sj_in, exceptSplit>>

SplitNext == SplitWhile \/ SplitHalf \/ SplitRest

-----------------------------------------------------------------------------
(* SyncFinder::bit_quality (audiowmark.cc) *)

\* bit_quality with the two quotients exchanged: umag < dmag ? dmag / umag - 1 : 1 - umag / dmag
bit_quality_swapped(umag, dmag, bit) ==
  LET raw_bit == IF umag = 0 \/ dmag = 0 THEN FracInt(0)
                 ELSE IF umag < dmag THEN Frac(dmag - umag, umag)
                 ELSE Frac(umag - dmag, dmag)
  IN  IF bit % 2 = 1 THEN raw_bit ELSE FracNeg(raw_bit)

\* bit_quality with the final selection inverted: expect_data_bit ? -raw_bit : raw_bit
bit_quality_negated(umag, dmag, bit) ==
  LET raw_bit == IF umag = 0 \/ dmag = 0 THEN FracInt(0)
                 ELSE IF umag < dmag THEN Frac(dmag - umag, dmag)
                 ELSE Frac(dmag - umag, umag)
  IN  IF bit % 2 = 1 THEN FracNeg(raw_bit) ELSE raw_bit

\* bit_quality that returns raw_bit whatever the bit index is
bit_quality_no_expect(umag, dmag, bit) ==
  IF umag = 0 \/ dmag = 0 THEN FracInt(0)
  ELSE IF umag < dmag THEN Frac(dmag - umag, dmag)
  ELSE Frac(dmag - umag, umag)

\* bit_quality without the test for a zero magnitude; a division by 0 is
\* written as a fraction with denominator 0
bit_quality_unguarded(umag, dmag, bit) ==
  LET raw_bit == IF umag < dmag THEN Frac(dmag - umag, dmag)
                 ELSE Frac(dmag - umag, umag)
  IN  IF bit % 2 = 1 THEN raw_bit ELSE [n |-> -raw_bit.n, d |-> raw_bit.d]

\* umag < dmag: raw_bit = 1 - umag / dmag = (dmag - umag) / dmag
\* otherwise:   raw_bit = dmag / umag - 1 = (dmag - umag) / umag
bit_quality(umag, dmag, bit) ==
  LET raw_bit == IF umag = 0 \/ dmag = 0 THEN FracInt(0)
                 ELSE IF umag < dmag THEN Frac(dmag - umag, dmag)
                 ELSE Frac(dmag - umag, umag)
  IN  IF bit % 2 = 1 THEN raw_bit ELSE FracNeg(raw_bit)

BQInit ==
  /\ bq_in \in [umag : (-MaxMag)..MaxMag, dmag : (-MaxMag)..MaxMag, bit : 0..MaxBit]
  /\ bq_pc = "call"
  /\ bq_out = FracInt(0)

BQCall ==
  /\ bq_pc = "call"
  /\ bq_out' = bit_quality(bq_in.umag, bq_in.dmag, bq_in.bit)
  /\ bq_pc' = "ret"
  /\ UNCHANGED <<bq_in, exceptBQ>>

-----------------------------------------------------------------------------
(* ThreadPool (threadpool.cc), from its contract: add_job enqueues a        *)
(* closure that any worker may run, wait_all blocks until every job added   *)
(* so far has completed; the workers share one FIFO queue.                  *)

\* add_job (fn)
add_job(queue, fn) == Append(queue, fn)

\* a worker is free and the queue holds a job: the worker takes the oldest one
worker_can_take(queue, running, n_threads) ==
  queue # <<>> /\ Cardinality(running) < n_threads

\* wait_all() returns
wait_all_returns(queue, running) == queue = <<>> /\ running = {}

-----------------------------------------------------------------------------
(* detect_speed::run_search and the jobs of SpeedSync::get_jobs (wmspeed.cc) *)

Syncs(n)    == 0..(n - 1)                     \* indices into the vector `jobs`
SearchSteps == (-NSteps)..NSteps              \* the p of get_jobs: one search job each
PrepareJob(i)   == [kind |-> "prepare", sync |-> i, p |-> 0]
SearchJob(i, p) == [kind |-> "search", sync |-> i, p |-> p]

\* jobs[i].search_jobs in the order get_jobs pushed them: p = -n_steps .. n_steps
search_jobs(i) == [k \in 1..(2 * NSteps + 1) |-> SearchJob(i, k - NSteps - 1)]

RunInit ==
  /\ rs_cfg \in [n_jobs : 0..MaxSync, n_threads : 1..MaxPool]
  /\ rs_pc = "split"
  /\ rs_loop = [split |-> <<>>, start |-> 0, count |-> 0, i |-> 0]
  /\ pool_queue = <<>>
  /\ pool_running = {}
  /\ sync_matrix = [i \in Syncs(rs_cfg.n_jobs) |-> "empty"]
  /\ result_scores = [i \in Syncs(rs_cfg.n_jobs) |-> <<>>]

\* size_t start = 0; for (size_t count : split_jobs (jobs.size(), thread_pool.n_threads()))
RunSplit ==
  /\ rs_pc = "split"
  /\ rs_loop' = [split |-> split_jobs(rs_cfg.n_jobs, rs_cfg.n_threads),
                 start |-> 0, count |-> 0, i |-> 0]
  /\ rs_pc' = "for"
  /\ UNCHANGED <<rs_cfg, pool_queue, pool_running, sync_matrix, result_scores, exceptRun>>

\* the head of the range-for: the next count, or the end of the loop
RunFor ==
  /\ rs_pc = "for"
  /\ IF rs_loop.split # <<>>
       THEN /\ rs_loop' = [rs_loop EXCEPT !.count = Head(rs_loop.split),
                                          !.split = Tail(rs_loop.split), !.i = 0]
            /\ rs_pc' = "add_prepare"
       ELSE /\ rs_loop' = rs_loop
            /\ rs_pc' = "results"
  /\ UNCHANGED <<rs_cfg, pool_queue, pool_running, sync_matrix, result_scores, exceptRun>>

\* for (i < count) thread_pool.add_job (jobs[start + i].prepare_job);
RunAddPrepare ==
  /\ rs_pc = "add_prepare"
  /\ IF rs_loop.i < rs_loop.count
       THEN /\ pool_queue' = add_job(pool_queue, PrepareJob(rs_loop.start + rs_loop.i))
            /\ rs_loop' = [rs_loop EXCEPT !.i = rs_loop.i + 1]
            /\ rs_pc' = "add_prepare"
       ELSE /\ pool_queue' = pool_queue
            /\ rs_loop' = rs_loop
            /\ rs_pc' = "wait_prepare"
  /\ UNCHANGED <<rs_cfg, pool_running, sync_matrix, result_scores, exceptRun>>

\* a run_search without the first wait_all
RunWaitPrepare_missing ==
  /\ rs_pc = "wait_prepare"
  /\ rs_loop' = [rs_loop EXCEPT !.i = 0]
  /\ rs_pc' = "add_search"
  /\ UNCHANGED <<rs_cfg, pool_queue, pool_running, sync_matrix, result_scores, exceptRun>>

\* thread_pool.wait_all(); after the prepare jobs
RunWaitPrepare ==
  /\ rs_pc = "wait_prepare"
  /\ wait_all_returns(pool_queue, pool_running)
  /\ rs_loop' = [rs_loop EXCEPT !.i = 0]
  /\ rs_pc' = "add_search"
  /\ UNCHANGED <<rs_cfg, pool_queue, pool_running, sync_matrix, result_scores, exceptRun>>

\* for (i < count) for (auto job : jobs[start + i].search_jobs) thread_pool.add_job (job);
\* one step adds the search jobs of one SpeedSync
RunAddSearch ==
  /\ rs_pc = "add_search"
  /\ IF rs_loop.i < rs_loop.count
       THEN /\ pool_queue' = pool_queue \o search_jobs(rs_loop.start + rs_loop.i)
            /\ rs_loop' = [rs_loop EXCEPT !.i = rs_loop.i + 1]
            /\ rs_pc' = "add_search"
       ELSE /\ pool_queue' = pool_queue
            /\ rs_loop' = rs_loop
            /\ rs_pc' = "wait_search"
  /\ UNCHANGED <<rs_cfg, pool_running, sync_matrix, result_scores, exceptRun>>

\* thread_pool.wait_all(); after the search jobs
RunWaitSearch ==
  /\ rs_pc = "wait_search"
  /\ wait_all_returns(pool_queue, pool_running)
  /\ rs_loop' = [rs_loop EXCEPT !.i = 0]
  /\ rs_pc' = "free"
  /\ UNCHANGED <<rs_cfg, pool_queue, pool_running, sync_matrix, result_scores, exceptRun>>

\* a run_search whose batches never call free_memory
RunFree_missing ==
  /\ rs_pc = "free"
  /\ sync_matrix' = sync_matrix
  /\ rs_loop' = [rs_loop EXCEPT !.start = rs_loop.start + rs_loop.count]
  /\ rs_pc' = "for"
  /\ UNCHANGED <<rs_cfg, pool_queue, pool_running, result_scores, exceptRun>>

\* for (i < count) jobs[start + i].free_memory(); start += count;
\* free_memory is sync_matrix.resize (0, 0)
RunFree ==
  /\ rs_pc = "free"
  /\ IF rs_loop.i < rs_loop.count
       THEN /\ sync_matrix' = [sync_matrix EXCEPT ![rs_loop.start + rs_loop.i] = "freed"]
            /\ rs_loop' = [rs_loop EXCEPT !.i = rs_loop.i + 1]
            /\ rs_pc' = "free"
       ELSE /\ sync_matrix' = sync_matrix
            /\ rs_loop' = [rs_loop EXCEPT !.start = rs_loop.start + rs_loop.count]
            /\ rs_pc' = "for"
  /\ UNCHANGED <<rs_cfg, pool_queue, pool_running, result_scores, exceptRun>>

\* assert (start == jobs.size()); scores = get_results()
RunResults ==
  /\ rs_pc = "results"
  /\ rs_pc' = IF rs_loop.start = rs_cfg.n_jobs THEN "done" ELSE "assert_failed"
  /\ UNCHANGED <<rs_cfg, rs_loop, pool_queue, pool_running, sync_matrix, result_scores,
                 exceptRun>>

\* a worker takes a prepare job: prepare_mags begins, sync_matrix.resize (rows, cols)
PrepareStart ==
  /\ worker_can_take(pool_queue, pool_running, rs_cfg.n_threads)
  /\ Head(pool_queue).kind = "prepare"
  /\ pool_running' = pool_running \cup {Head(pool_queue)}
  /\ pool_queue' = Tail(pool_queue)
  /\ sync_matrix' = [sync_matrix EXCEPT ![Head(pool_queue).sync] = "writing"]
  /\ UNCHANGED <<rs_pc, rs_cfg, rs_loop, result_scores, exceptRun>>

\* prepare_mags has filled the last row and returns
PrepareFinish ==
  \E job \in pool_running :
    /\ job.kind = "prepare"
    /\ pool_running' = pool_running \ {job}
    /\ sync_matrix' = [sync_matrix EXCEPT ![job.sync] = "ready"]
    /\ UNCHANGED <<rs_pc, rs_cfg, rs_loop, pool_queue, result_scores, exceptRun>>

\* a worker takes a search job: compare (relative_speed) begins to read sync_matrix
SearchStart ==
  /\ worker_can_take(pool_queue, pool_running, rs_cfg.n_threads)
  /\ Head(pool_queue).kind = "search"
  /\ pool_running' = pool_running \cup {Head(pool_queue)}
  /\ pool_queue' = Tail(pool_queue)
  /\ UNCHANGED <<rs_pc, rs_cfg, rs_loop, sync_matrix, result_scores, exceptRun>>

\* compare ends and pushes its score without the lock: the score is lost
\* when another search job of the SpeedSync is running
SearchFinish_unguarded ==
  \E job \in pool_running :
    /\ job.kind = "search"
    /\ pool_running' = pool_running \ {job}
    /\ result_scores' =
         IF \E other \in pool_running \ {job} : other.kind = "search" /\ other.sync = job.sync
           THEN result_scores
           ELSE [result_scores EXCEPT ![job.sync] = Append(@, job.p)]
    /\ UNCHANGED <<rs_pc, rs_cfg, rs_loop, pool_queue, sync_matrix, exceptRun>>

\* compare ends: lock_guard lg (mutex); result_scores.push_back (best_score);
SearchFinish ==
  \E job \in pool_running :
    /\ job.kind = "search"
    /\ pool_running' = pool_running \ {job}
    /\ result_scores' = [result_scores EXCEPT ![job.sync] = Append(@, job.p)]
    /\ UNCHANGED <<rs_pc, rs_cfg, rs_loop, pool_queue, sync_matrix, exceptRun>>

RunNext ==
  \/ RunSplit \/ RunFor \/ RunAddPrepare \/ RunWaitPrepare \/ RunAddSearch
  \/ RunWaitSearch \/ RunFree \/ RunResults
  \/ PrepareStart \/ PrepareFinish \/ SearchStart \/ SearchFinish

-----------------------------------------------------------------------------
(* SyncFinder (syncfinder.cc): the data of a search                         *)
(*                                                                          *)
(* The signal is one channel of sf_in.len samples.  What sync_decode makes  *)
(* of the FFT rows is not modelled bit by bit: its value for a block that   *)
(* starts at a given sample is a function of the key, the signal and that   *)
(* sample, and the input carries this function - sf_in.q gives it at the    *)
(* multiples of sync_search_step, sf_in.fill says which of the two          *)
(* neighbouring values it takes in between.                                 *)
(* One key is modelled: every key has its own scores vector and its own     *)
(* refinement pass.                                                         *)

StepsPerFrame == frame_size \div sync_search_step

\* the signal the inputs are built around, period Len(RefQ) coarse steps
RefQ == <<-1, 2, 3, 3, -4, -4, 4, 4>>

QPositions   == 0..((MaxFrames + 2) * StepsPerFrame)   \* coarse positions that carry a value
SigPositions == 0..((MaxFrames - 2) * StepsPerFrame)   \* ... those an input may differ at
RefSignal    == [k \in QPositions |-> RefQ[(k % Len(RefQ)) + 1]]

\* the reference signal, and every signal that differs from it at one
\* position, where it has any value in -MaxQ..MaxQ
Signals ==
  { [RefSignal EXCEPT ![p] = v] : p \in SigPositions, v \in (-MaxQ)..MaxQ }

Modes == {"BLOCK", "CLIP"}
Fills == {"left", "right"}

\* mark_sync_frame_count() + mark_data_frame_count(), doubled in CLIP mode
total_frame_count(mode) == IF mode = "CLIP" THEN 2 * BlockFrames ELSE BlockFrames

\* sync_decode, by its value: the quality of the block that starts at sample index
sync_decode(input, index) ==
  LET k == index \div sync_search_step
  IN  IF index % sync_search_step = 0 \/ input.fill = "left"
      THEN FracInt(input.q[k])
      ELSE FracInt(input.q[k + 1])

\* SearchScore and SearchScore::abs_quality
SearchScore(index, raw_quality, local_mean) ==
  [index |-> index, raw_quality |-> raw_quality, local_mean |-> local_mean]
abs_quality(score) == FracAbs(FracSub(score.raw_quality, score.local_mean))

\* std::sort with the comparison Less.  The standard leaves the order of
\* elements that compare equal to the implementation; the insertion sort that
\* libstdc++ runs on vectors of this size keeps them in input order.
StableSort(s, Less(_, _)) ==
  LET n    == Len(s)
      \* the elements that end up before element i
      rank == [i \in 1..n |->
                 Cardinality({ j \in 1..n : Less(s[j], s[i])
                                             \/ (~Less(s[i], s[j]) /\ j < i) })]
  IN  SubSeq([p \in 1..n |-> s[CHOOSE i \in 1..n : rank[i] = p - 1]], 1, n)

index_less(a, b)   == a.index < b.index
quality_more(a, b) == FracLt(abs_quality(b), abs_quality(a))

sort_by_index(scores)   == StableSort(scores, index_less)
sort_by_quality(scores) == StableSort(scores, quality_more)

-----------------------------------------------------------------------------
(* SyncFinder: sync_fft, sync_fft_parallel, split_vector and the selection  *)
(* steps of search, as functions                                            *)

\* sync_fft: no rows if the frames would be read past the end of the signal,
\* else one row per frame; a row is represented by the sample its frame starts at
sync_fft(len, index, frame_count) ==
  IF len < index + frame_count * frame_size
    THEN <<>>
    ELSE [f \in 1..frame_count |-> index + (f - 1) * frame_size]

\* sync_fft_parallel: one job per frames_per_job frames, each calling sync_fft
\* for min (frame_count (wav_data) - 1 - start_frame, frames_per_job) frames;
\* the partial results are sorted by start_frame and concatenated
RECURSIVE sync_fft_parallel_from(_, _, _)
sync_fft_parallel_from(input, index, start_frame) ==
  IF start_frame >= input.fc THEN <<>>
  ELSE LET remaining_frames == input.fc - 1 - start_frame
           frames == Min(remaining_frames, frames_per_job)
           part   == IF frames > 0
                       THEN sync_fft(input.len, index + start_frame * frame_size, frames)
                       ELSE <<>>
       IN  part \o sync_fft_parallel_from(input, index, start_frame + frames_per_job)

sync_fft_parallel(input, index) == sync_fft_parallel_from(input, index, 0)

\* the condition under which search_approx does not check a start frame at all
start_frame_fits_any(start_frame, total, rows) == TRUE

\* (start_frame + total_frame_count) * n_bands < fft_db.size()
start_frame_fits(start_frame, total, rows) == start_frame + total < Len(rows)

\* the vector start_frames with every frame of the signal in it
start_frames_all(input, rows) == [i \in 1..input.fc |-> i - 1]

\* the vector start_frames of search_approx
start_frames(input, rows) ==
  SelectSeq([i \in 1..input.fc |-> i - 1],
            LAMBDA start_frame : start_frame_fits(start_frame, total_frame_count(input.mode), rows))

\* split_vector
RECURSIVE split_vector(_, _)
split_vector(in_vector, max_size) ==
  IF in_vector = <<>> THEN <<>>
  ELSE LET n == Min(Len(in_vector), max_size)
       IN  <<SubSeq(in_vector, 1, n)>> \o
           split_vector(SubSeq(in_vector, n + 1, Len(in_vector)), max_size)

\* the local mean of score i: the mean raw quality of the scores at distance
\* 4..local_mean_distance on either side, 0 if there is none
local_mean(scores, i) ==
  LET near == { idx \in 1..Len(scores) :
                  Abs(idx - i) >= 4 /\ Abs(idx - i) <= local_mean_distance }
      n    == Cardinality(near)
      RECURSIVE sum(_)
      sum(S) == IF S = {} THEN 0
                ELSE LET idx == CHOOSE x \in S : TRUE
                     IN  scores[idx].raw_quality.n + sum(S \ {idx})
  IN  IF n > 0 THEN FracNorm(sum(near), n) ELSE FracInt(0)

\* the end of search_approx: sort by index, then fill in the local means
approx_finish(scores) ==
  LET sorted == sort_by_index(scores)
  IN  [i \in 1..Len(sorted) |-> [sorted[i] EXCEPT !.local_mean = local_mean(sorted, i)]]

\* sync_select_local_maxima without the skip of the score after a peak
RECURSIVE local_maxima_no_skip(_, _)
local_maxima_no_skip(scores, i) ==
  IF i > Len(scores) THEN <<>>
  ELSE LET q      == abs_quality(scores[i])
           q_last == IF i > 1 THEN abs_quality(scores[i - 1]) ELSE FracZero
           q_next == IF i + 1 <= Len(scores) THEN abs_quality(scores[i + 1]) ELSE FracZero
       IN  IF FracLe(q_last, q) /\ FracLe(q_next, q)
             THEN <<scores[i]>> \o local_maxima_no_skip(scores, i + 1)
             ELSE local_maxima_no_skip(scores, i + 1)

\* sync_select_local_maxima
RECURSIVE local_maxima_from(_, _)
local_maxima_from(scores, i) ==
  IF i > Len(scores) THEN <<>>
  ELSE LET q      == abs_quality(scores[i])
           q_last == IF i > 1 THEN abs_quality(scores[i - 1]) ELSE FracZero
           q_next == IF i + 1 <= Len(scores) THEN abs_quality(scores[i + 1]) ELSE FracZero
       IN  IF FracLe(q_last, q) /\ FracLe(q_next, q)
             THEN <<scores[i]>> \o local_maxima_from(scores, i + 2)
             ELSE local_maxima_from(scores, i + 1)

sync_select_local_maxima(scores) == local_maxima_from(scores, 1)

\* sync_mask_avg_false_positives
quality_sign(score) ==
  IF FracLt(FracSub(score.raw_quality, score.local_mean), FracZero) THEN -1 ELSE 1

sync_mask_avg_false_positives(scores) ==
  LET mask_distance == local_mean_distance + 3
      masked(i) ==
        \E j \in 1..Len(scores) :
          /\ i # j /\ Abs(j - i) <= mask_distance
          /\ Abs(scores[i].index - scores[j].index) \div sync_search_step <= mask_distance
          /\ FracLt(FracTimes(abs_quality(scores[i]), 3), abs_quality(scores[j]))
          /\ quality_sign(scores[j]) # quality_sign(scores[i])
      kept == SelectSeq([i \in 1..Len(scores) |-> i], LAMBDA i : ~masked(i))
  IN  [k \in 1..Len(kept) |-> scores[kept[k]]]

\* sync_select_threshold_and_n_best that keeps the scores above the threshold only
threshold_only(scores, threshold) ==
  LET sorted == sort_by_quality(scores)
      i      == Cardinality({ k \in 1..Len(sorted) :
                  \A m \in 1..k : FracLt(threshold, abs_quality(sorted[m])) })
  IN  SubSeq(sorted, 1, i)

\* sync_select_threshold_and_n_best
sync_select_threshold_and_n_best(scores, threshold) ==
  LET sorted == sort_by_quality(scores)
      i      == Cardinality({ k \in 1..Len(sorted) :
                  \A m \in 1..k : FracLt(threshold, abs_quality(sorted[m])) })
  IN  IF i >= get_n_best THEN SubSeq(sorted, 1, i)
      ELSE IF Len(sorted) > get_n_best THEN SubSeq(sorted, 1, get_n_best)
      ELSE sorted

\* sync_select_truncate_n without the resize
truncate_none(scores, n) == sort_by_quality(scores)

\* sync_select_truncate_n
sync_select_truncate_n(scores, n) ==
  LET sorted == sort_by_quality(scores)
  IN  IF Len(sorted) > n THEN SubSeq(sorted, 1, n) ELSE sorted

\* the job search_refine adds for one score: the best quality, relative to the
\* local mean, over the fine positions around the score for which sync_fft
\* returns rows
RECURSIVE refine_from(_, _, _, _)
refine_from(input, score, fine_index, best) ==
  IF fine_index > score.index + sync_search_step THEN best
  ELSE LET rows   == sync_fft(input.len, fine_index, total_frame_count(input.mode))
           q      == sync_decode(input, fine_index)
           better == /\ rows # <<>>
                     /\ FracLt(FracAbs(FracSub(best.quality, score.local_mean)),
                               FracAbs(FracSub(q, score.local_mean)))
       IN  IF better
             THEN refine_from(input, score, fine_index + sync_search_fine,
                              [quality |-> q, index |-> fine_index])
             ELSE refine_from(input, score, fine_index + sync_search_fine, best)

\* search_refine whose fine search starts at the index of the score
refine_forward(input, score) ==
  LET best == refine_from(input, score, score.index,
                          [quality |-> score.raw_quality, index |-> score.index])
  IN  SearchScore(best.index, best.quality, score.local_mean)

refine(input, score) ==
  LET start == Max(score.index - sync_search_step, 0)
      best  == refine_from(input, score, start,
                           [quality |-> score.raw_quality, index |-> score.index])
  IN  SearchScore(best.index, best.quality, score.local_mean)

\* search, between search_approx and search_refine
select_candidates(input, scores) ==
  LET maxima   == sync_select_local_maxima(scores)
      unmasked == sync_mask_avg_false_positives(maxima)
      selected == sync_select_threshold_and_n_best(unmasked, FracNorm(3 * sync_threshold2, 4))
  IN  IF input.mode = "CLIP"
        THEN sync_select_truncate_n(selected, Max(get_n_best, 5))
        ELSE selected

\* search, after search_refine: the second threshold and the sort by index
select_refined(scores) ==
  sort_by_index(sync_select_threshold_and_n_best(scores, FracInt(sync_threshold2)))

\* search: the Score made of a SearchScore
Score(search_score) ==
  LET q == FracSub(search_score.raw_quality, search_score.local_mean)
  IN  [index      |-> search_score.index,
       quality    |-> FracAbs(q),
       block_type |-> IF FracLt(FracZero, q) THEN "a" ELSE "b"]

\* the jobs of search_approx for one shift, and those of search_refine
approx_jobs(input, sync_shift, rows) ==
  LET chunks == split_vector(start_frames(input, rows), frames_per_job)
  IN  [c \in 1..Len(chunks) |->
         [kind |-> "approx", sync_shift |-> sync_shift, frames |-> chunks[c]]]

approx_score(input, sync_shift, start_frame) ==
  LET sync_index == start_frame * frame_size + sync_shift
  IN  SearchScore(sync_index, sync_decode(input, sync_index), FracZero)

\* a job of search_refine captures its score by value and reads the signal
\* only: the score it will push is fixed when the job is added
refine_jobs(input, scores) ==
  [i \in 1..Len(scores) |->
     [kind |-> "refine", score |-> scores[i], refined |-> refine(input, scores[i])]]

RECURSIVE add_jobs(_, _)
add_jobs(queue, fns) ==
  IF fns = <<>> THEN queue ELSE add_jobs(add_job(queue, Head(fns)), Tail(fns))

-----------------------------------------------------------------------------
(* SyncFinder::search as a state machine: the calling thread walks through  *)
(* search_approx, the selection and search_refine; the workers of the pool  *)
(* take the jobs and append their results under result_mutex                *)

\* frame_count (wav_data) is declared outside these files: the number of
\* frames of the signal, the last partial frame counted or not
frame_count(len) == { len \div frame_size, (len + frame_size - 1) \div frame_size }

ExtraSamples == {0, 520}
Lengths == { len \in { f * frame_size + e : f \in 0..MaxFrames, e \in ExtraSamples } :
               len <= MaxFrames * frame_size }

SearchInit ==
  /\ sf_in \in { [len |-> len, fc |-> fc, mode |-> mode, q |-> q, fill |-> fill] :
                   len \in Lengths, fc \in 0..MaxFrames, mode \in Modes,
                   q \in Signals, fill \in Fills }
  /\ sf_in.fc \in frame_count(sf_in.len)
  /\ sf_pc = "approx_fft"
  /\ sf_shift = 0
  /\ fft_db = <<>>
  /\ sf_queue = <<>> /\ sf_running = {}
  /\ key_scores = <<>> /\ refine_scores = <<>> /\ sync_scores = <<>>

\* search_approx, one round of the loop over sync_shift: sync_fft_parallel,
\* start_frames, one job per chunk of start frames
ApproxShift ==
  /\ sf_pc = "approx_fft"
  /\ LET rows == sync_fft_parallel(sf_in, sf_shift)
     IN  /\ fft_db' = rows
         /\ sf_queue' = add_jobs(sf_queue, approx_jobs(sf_in, sf_shift, rows))
  /\ sf_pc' = "approx_wait"
  /\ UNCHANGED <<sf_in, sf_shift, sf_running, key_scores, refine_scores, sync_scores,
                 exceptSearch>>

\* a worker takes the oldest job of the queue
WorkerTake ==
  /\ worker_can_take(sf_queue, sf_running, SearchThreads)
  /\ sf_running' = sf_running \cup {Head(sf_queue)}
  /\ sf_queue' = Tail(sf_queue)
  /\ UNCHANGED <<sf_pc, sf_in, sf_shift, fft_db, key_scores, refine_scores, sync_scores,
                 exceptSearch>>

\* a job of search_approx handles its next start frame: sync_decode, then
\* push_back on the scores of the key under result_mutex
ApproxJobStep ==
  \E job \in sf_running :
    /\ job.kind = "approx"
    /\ key_scores' = Append(key_scores, approx_score(sf_in, job.sync_shift, Head(job.frames)))
    /\ sf_running' = (sf_running \ {job}) \cup
                     (IF Tail(job.frames) = <<>>
                        THEN {}
                        ELSE {[job EXCEPT !.frames = Tail(job.frames)]})
    /\ UNCHANGED <<sf_pc, sf_in, sf_shift, fft_db, sf_queue, refine_scores, sync_scores,
                   exceptSearch>>

\* search_approx: wait_all() at the end of a round, then the next shift
ApproxWaitAll ==
  /\ sf_pc = "approx_wait"
  /\ wait_all_returns(sf_queue, sf_running)
  /\ sf_shift' = sf_shift + sync_search_step
  /\ sf_pc' = IF sf_shift' < frame_size THEN "approx_fft" ELSE "approx_sort"
  /\ UNCHANGED <<sf_in, fft_db, sf_queue, sf_running, key_scores, refine_scores,
                 sync_scores, exceptSearch>>

\* search_approx after the loop: sort by index, local means
ApproxFinish ==
  /\ sf_pc = "approx_sort"
  /\ key_scores' = approx_finish(key_scores)
  /\ sf_pc' = "select"
  /\ UNCHANGED <<sf_in, sf_shift, fft_db, sf_queue, sf_running, refine_scores,
                 sync_scores, exceptSearch>>

\* search: local maxima, mask, first threshold, truncation in CLIP mode
SearchSelect ==
  /\ sf_pc = "select"
  /\ key_scores' = select_candidates(sf_in, key_scores)
  /\ sf_pc' = "refine"
  /\ UNCHANGED <<sf_in, sf_shift, fft_db, sf_queue, sf_running, refine_scores,
                 sync_scores, exceptSearch>>

\* search_refine: one job per score
RefineAddJobs ==
  /\ sf_pc = "refine"
  /\ sf_queue' = add_jobs(sf_queue, refine_jobs(sf_in, key_scores))
  /\ refine_scores' = <<>>
  /\ sf_pc' = "refine_wait"
  /\ UNCHANGED <<sf_in, sf_shift, fft_db, sf_running, key_scores, sync_scores,
                 exceptSearch>>

\* a job of search_refine: the fine search, then push_back on result_scores
\* under result_mutex
RefineJobRun ==
  \E job \in sf_running :
    /\ job.kind = "refine"
    /\ refine_scores' = Append(refine_scores, job.refined)
    /\ sf_running' = sf_running \ {job}
    /\ UNCHANGED <<sf_pc, sf_in, sf_shift, fft_db, sf_queue, key_scores, sync_scores,
                   exceptSearch>>

\* search_refine: wait_all(), sort by index, key_result.scores = result_scores
RefineWaitAll ==
  /\ sf_pc = "refine_wait"
  /\ wait_all_returns(sf_queue, sf_running)
  /\ key_scores' = sort_by_index(refine_scores)
  /\ sf_pc' = "threshold2"
  /\ UNCHANGED <<sf_in, sf_shift, fft_db, sf_queue, sf_running, refine_scores,
                 sync_scores, exceptSearch>>

\* search: second threshold, sort by index, the Score of every SearchScore
SearchReturn ==
  /\ sf_pc = "threshold2"
  /\ key_scores' = select_refined(key_scores)
  /\ sync_scores' = [i \in 1..Len(key_scores') |-> Score(key_scores'[i])]
  /\ sf_pc' = "done"
  /\ UNCHANGED <<sf_in, sf_shift, fft_db, sf_queue, sf_running, refine_scores,
                 exceptSearch>>

SearchNext ==
  \/ ApproxShift \/ WorkerTake \/ ApproxJobStep \/ ApproxWaitAll \/ ApproxFinish
  \/ SearchSelect \/ RefineAddJobs \/ RefineJobRun \/ RefineWaitAll \/ SearchReturn

\* search with every job completing in the order it was added
RECURSIVE approx_in_order(_, _)
approx_in_order(input, sync_shift) ==
  IF sync_shift >= frame_size THEN <<>>
  ELSE LET frames == start_frames(input, sync_fft_parallel(input, sync_shift))
       IN  [i \in 1..Len(frames) |-> approx_score(input, sync_shift, frames[i])]
           \o approx_in_order(input, sync_shift + sync_search_step)

search_in_order(input) ==
  LET candidates == select_candidates(input, approx_finish(approx_in_order(input, 0)))
      refined    == [i \in 1..Len(candidates) |-> refine(input, candidates[i])]
      selected   == select_refined(sort_by_index(refined))
  IN  [i \in 1..Len(selected) |-> Score(selected[i])]

-----------------------------------------------------------------------------
(* detect_speed (wmspeed.cc): the scores of one run_search pass, for one    *)
(* key.  Speeds are on a logarithmic scale with the step of the pass as     *)
(* base: the speed pow (step, p) * center of the source is center + p here. *)
(* What compare finds in the signal at a speed is an input: the quality of  *)
(* the best offset, 0 if no offset reaches a quality above 0.               *)

\* SpeedSync::Score, and the default-constructed Score
SpeedScore(speed, quality) == [speed |-> speed, quality |-> quality]
default_score == SpeedScore(0, 0)

\* compare that leaves best_score.speed as it is
compare_speed_unset(center, p, sync_quality) ==
  IF sync_quality > default_score.quality
    THEN SpeedScore(default_score.speed, sync_quality)
    ELSE default_score

\* compare: the Score a search job pushes on result_scores
compare(center, p, sync_quality) ==
  IF sync_quality > default_score.quality
    THEN SpeedScore(center + p, sync_quality)
    ELSE default_score

\* SpeedSearch::get_results: the result_scores of the SpeedSyncs, one after the other
RECURSIVE get_results(_)
get_results(results) ==
  IF results = <<>> THEN <<>> ELSE Head(results) \o get_results(Tail(results))

speed_less(a, b)         == a.speed < b.speed
speed_quality_more(a, b) == a.quality > b.quality

\* select_n_best_scores
\* the peak loop of select_n_best_scores with a peak strictly above both neighbours
RECURSIVE lmax_strict(_, _)
lmax_strict(scores, x) ==
  IF x > Len(scores) THEN <<>>
  ELSE LET get_quality(pos) == IF pos >= 1 /\ pos <= Len(scores) THEN scores[pos].quality ELSE 0
           q1 == get_quality(x - 1)
           q2 == get_quality(x)
           q3 == get_quality(x + 1)
       IN  IF q1 < q2 /\ q2 > q3
             THEN <<scores[x]>> \o lmax_strict(scores, x + 2)
             ELSE lmax_strict(scores, x + 1)

\* the peak loop of select_n_best_scores without the skip of the score after a peak
RECURSIVE lmax_no_skip(_, _)
lmax_no_skip(scores, x) ==
  IF x > Len(scores) THEN <<>>
  ELSE LET get_quality(pos) == IF pos >= 1 /\ pos <= Len(scores) THEN scores[pos].quality ELSE 0
           q1 == get_quality(x - 1)
           q2 == get_quality(x)
           q3 == get_quality(x + 1)
       IN  IF q1 <= q2 /\ q2 >= q3
             THEN <<scores[x]>> \o lmax_no_skip(scores, x + 1)
             ELSE lmax_no_skip(scores, x + 1)

RECURSIVE lmax_from(_, _)
lmax_from(scores, x) ==
  IF x > Len(scores) THEN <<>>
  ELSE LET get_quality(pos) == IF pos >= 1 /\ pos <= Len(scores) THEN scores[pos].quality ELSE 0
           q1 == get_quality(x - 1)
           q2 == get_quality(x)
           q3 == get_quality(x + 1)
       IN  IF q1 <= q2 /\ q2 >= q3
             THEN <<scores[x]>> \o lmax_from(scores, x + 2)
             ELSE lmax_from(scores, x + 1)

select_n_best_scores(scores, n) ==
  LET lmax_scores == StableSort(lmax_from(StableSort(scores, speed_less), 1),
                                speed_quality_more)
  IN  IF Len(lmax_scores) > n THEN SubSeq(lmax_scores, 1, n) ELSE lmax_scores

\* window_cos is declared outside these files: a window that is positive
\* within the given distance of 0, falls off to both sides and is 0 beyond
window_cos(d) == Max(0, SmoothDistance - Abs(d))

\* score_smooth_find_best: the loop over the speeds from the lowest speed of
\* the scores up to, not including, the highest; a division by 0 gives a NaN,
\* which is not larger than anything
RECURSIVE smooth_from(_, _, _, _)
smooth_from(scores, speed, best_speed, best_quality) ==
  IF ~(speed < scores[Len(scores)].speed) THEN best_speed
  ELSE LET quality_sum == SeqSum([i \in 1..Len(scores) |->
                             scores[i].quality * window_cos(scores[i].speed - speed)])
           quality_div == SeqSum([i \in 1..Len(scores) |->
                             window_cos(scores[i].speed - speed)])
           better      == /\ quality_div # 0
                          /\ FracLt(best_quality, Frac(quality_sum, quality_div))
       IN  IF better
             THEN smooth_from(scores, speed + 1, speed, Frac(quality_sum, quality_div))
             ELSE smooth_from(scores, speed + 1, best_speed, best_quality)

score_smooth_find_best(in_scores) ==
  LET scores == StableSort(in_scores, speed_less)
  IN  smooth_from(scores, scores[1].speed, 0, FracZero)

\* detect_speed, after the last pass: the speed reported for the key, if any
RECURSIVE max_quality(_)
max_quality(scores) ==
  IF scores = <<>> THEN 0 ELSE Max(Head(scores).quality, max_quality(Tail(scores)))

\* report_speed without the two tests
report_speed_any(scores) == <<score_smooth_find_best(scores)>>

report_speed(scores) ==
  LET best_speed   == score_smooth_find_best(scores)
      best_quality == max_quality(scores)
  IN  IF best_quality > speed_sync_threshold /\ best_speed # UnitSpeed
        THEN <<best_speed>>
        ELSE <<>>

\* the search jobs of the pass: one per SpeedSync and p in -NSteps..NSteps
SpeedJobs(input) ==
  { [sync |-> i, p |-> p] : i \in 1..Len(input.centers), p \in SearchSteps }

\* the result_scores of a SpeedSync whose jobs complete in the order of get_jobs
scores_in_order(input, i) ==
  [k \in 1..(2 * NSteps + 1) |->
     compare(input.centers[i], k - NSteps - 1, input.quality[i][k - NSteps - 1])]

results_in_order(input) ==
  get_results([i \in 1..Len(input.centers) |-> scores_in_order(input, i)])

\* SpeedSearch::get_jobs: the centers of the SpeedSyncs lie on a grid around
\* the speed, 2 * n_steps + 1 steps apart, so that the speeds of the search
\* jobs of two SpeedSyncs never meet (speeds count in steps here)
c_speed(speed, c) == speed + c * (2 * NSteps + 1)

\* a pass with one SpeedSync, or with two neighbours of the grid
SpeedInit ==
  /\ sp_in \in { [centers |-> c, quality |-> q] :
                   c \in { <<c_speed(UnitSpeed, 0)>>,
                           <<c_speed(UnitSpeed, 0), c_speed(UnitSpeed, 1)>> },
                   q \in [1..2 -> [SearchSteps -> 0..MaxQuality]] }
  /\ \A i \in 1..2 : i > Len(sp_in.centers) => \A p \in SearchSteps : sp_in.quality[i][p] = 0
  /\ sp_pc = "search"
  /\ sp_pending = SpeedJobs(sp_in)
  /\ sp_result_scores = [i \in 1..Len(sp_in.centers) |-> <<>>]
  /\ sp_scores = <<>>
  /\ sp_out = [kind |-> "none"]

\* a search job: compare, then push_back on result_scores under the mutex
CompareRun ==
  \E job \in sp_pending :
    /\ sp_pc = "search"
    /\ sp_result_scores' =
         [sp_result_scores EXCEPT ![job.sync] =
            Append(@, compare(sp_in.centers[job.sync], job.p, sp_in.quality[job.sync][job.p]))]
    /\ sp_pending' = sp_pending \ {job}
    /\ UNCHANGED <<sp_pc, sp_in, sp_scores, sp_out, exceptSpeed>>

\* run_search after the last wait_all: key_speed_search.scores = get_results()
SpeedGetResults ==
  /\ sp_pc = "search" /\ sp_pending = {}
  /\ sp_scores' = get_results(sp_result_scores)
  /\ sp_pc' = "results"
  /\ UNCHANGED <<sp_in, sp_pending, sp_result_scores, sp_out, exceptSpeed>>

\* after scan1 and scan2: select_n_best_scores with n_best, or with 1
SpeedSelect ==
  \E n \in {1, n_best} :
    /\ sp_pc = "results"
    /\ sp_out' = [kind |-> "selected", n |-> n, scores |-> select_n_best_scores(sp_scores, n)]
    /\ sp_pc' = "selected"
    /\ UNCHANGED <<sp_in, sp_pending, sp_result_scores, sp_scores, exceptSpeed>>

\* after scan3: smoothing, threshold, the result for the key
SpeedReport ==
  /\ sp_pc = "results"
  /\ sp_out' = [kind |-> "reported", speeds |-> report_speed(sp_scores)]
  /\ sp_pc' = "reported"
  /\ UNCHANGED <<sp_in, sp_pending, sp_result_scores, sp_scores, exceptSpeed>>

SpeedNext == CompareRun \/ SpeedGetResults \/ SpeedSelect \/ SpeedReport

-----------------------------------------------------------------------------
(* SyncFinder::search over a key list (audiowmark.cc).  The jobs of the    *)
(* pool complete in the order they were added; every key has its own sync  *)
(* qualities in the signal.                                                 *)

\* search_refine with its jobs completing in the order they were added
RECURSIVE refine_in_order(_, _)
refine_in_order(input, scores) ==
  IF scores = <<>> THEN <<>>
  ELSE <<refine(input, Head(scores))>> \o refine_in_order(input, Tail(scores))

\* what search reads of the signal for key k
key_input(in, k) ==
  [len |-> in.len, fc |-> in.fc, mode |-> in.mode, q |-> in.q[k], fill |-> in.fill]

\* fake_sync: in BLOCK mode a score at every expected block start
RECURSIVE fake_scores_from(_, _, _, _)
fake_scores_from(expect_index, expect_step, expect_end, ab) ==
  IF ~(expect_index + expect_step < expect_end) THEN <<>>
  ELSE <<[index      |-> expect_index,
          quality    |-> FracInt(1),
          block_type |-> IF ab % 2 = 1 THEN "b" ELSE "a"]>>
       \o fake_scores_from(expect_index + expect_step, expect_step, expect_end, ab + 1)

fake_sync(in) ==
  LET fake_scores ==
        IF in.mode = "BLOCK"
          THEN fake_scores_from(frames_pad_start * frame_size, BlockFrames * frame_size,
                                in.fc * frame_size, 0)
          ELSE <<>>
  IN  [k \in 1..Len(in.keys) |-> [key |-> in.keys[k], sync_scores |-> fake_scores]]

\* the signals of the keys: for key k the reference signal with position k set
KeySignals(n) == { [k \in 1..n |-> [RefSignal EXCEPT ![k] = v]] : v \in {-MaxQ, 0, MaxQ} }

KeysInit ==
  /\ sk_in \in UNION { [keys : {[k \in 1..n |-> k]},
                        len  : Lengths,
                        fc   : 0..MaxFrames,
                        mode : Modes,
                        fill : Fills,
                        q    : KeySignals(n),
                        test_no_sync : BOOLEAN] : n \in 0..MaxKeys }
  /\ sk_in.fc \in frame_count(sk_in.len)
  /\ sk_pc = "start"
  /\ search_key_results = <<>>
  /\ sk_k = 1
  /\ key_results = <<>>

\* if (Params::test_no_sync) return fake_sync (key_list, wav_data, mode);
KeysFake ==
  /\ sk_pc = "start"
  /\ sk_in.test_no_sync
  /\ key_results' = fake_sync(sk_in)
  /\ sk_pc' = "done"
  /\ UNCHANGED <<sk_in, search_key_results, sk_k, exceptKeys>>

\* the loop over key_list: a SearchKeyResult for each key
KeysBuild ==
  /\ sk_pc = "start"
  /\ ~sk_in.test_no_sync
  /\ search_key_results' = [k \in 1..Len(sk_in.keys) |-> [key |-> sk_in.keys[k], scores |-> <<>>]]
  /\ sk_pc' = "approx"
  /\ UNCHANGED <<sk_in, sk_k, key_results, exceptKeys>>

\* search_approx: the coarse scores of every key, sorted, with local means
KeysApprox ==
  /\ sk_pc = "approx"
  /\ search_key_results' =
       [k \in 1..Len(search_key_results) |->
          [search_key_results[k] EXCEPT
             !.scores = approx_finish(approx_in_order(key_input(sk_in, k), 0))]]
  /\ sk_pc' = "loop"
  /\ UNCHANGED <<sk_in, sk_k, key_results, exceptKeys>>

\* one round of the loop over search_key_results: selection, search_refine,
\* second threshold, sort, push_back of the KeyResult
KeysLoop ==
  /\ sk_pc = "loop"
  /\ sk_k <= Len(search_key_results)
  /\ LET input      == key_input(sk_in, sk_k)
         candidates == select_candidates(input, search_key_results[sk_k].scores)
         refined    == refine_in_order(input, candidates)
         selected   == select_refined(sort_by_index(refined))
     IN  /\ search_key_results' = [search_key_results EXCEPT ![sk_k].scores = selected]
         /\ key_results' = Append(key_results,
               [key         |-> search_key_results[sk_k].key,
                sync_scores |-> [i \in 1..Len(selected) |-> Score(selected[i])]])
  /\ sk_k' = sk_k + 1
  /\ UNCHANGED <<sk_pc, sk_in, exceptKeys>>

\* return key_results;
KeysReturn ==
  /\ sk_pc = "loop"
  /\ sk_k > Len(search_key_results)
  /\ sk_pc' = "done"
  /\ UNCHANGED <<sk_in, search_key_results, sk_k, key_results, exceptKeys>>

KeysNext == KeysFake \/ KeysBuild \/ KeysApprox \/ KeysLoop \/ KeysReturn

-----------------------------------------------------------------------------
(* The selection steps of SyncFinder::search for one key (audiowmark.cc),   *)
(* step by step, on given scores of search_approx.  search_refine is taken  *)
(* by what it can do to the list: every score is replaced by one score with *)
(* the same local mean and a quality at least as far from it.               *)

\* the scores of search_approx: one per coarse position, sorted by index
approx_scores(raws) ==
  [i \in 1..Len(raws) |-> SearchScore((i - 1) * sync_search_step, FracInt(raws[i]), FracZero)]

RawLists(n) == [1..n -> (-MaxRaw)..MaxRaw]
LongRaws    == [i \in 1..LongLen |-> IF i % 2 = 1 THEN MaxRaw ELSE 0]

SelectInputs ==
  { approx_scores(raws) : raws \in UNION { RawLists(n) : n \in 0..MaxList } }
  \cup { approx_scores([LongRaws EXCEPT ![p] = v]) : p \in 1..LongLen, v \in {0, MaxRaw} }

SelectInit ==
  /\ sl_in \in [mode : Modes, scores : SelectInputs]
  /\ sl_pc = "local_maxima"
  /\ sl_prev = <<>>
  /\ sl_scores = sl_in.scores

\* sync_select_local_maxima (search_scores);
SelLocalMaxima ==
  /\ sl_pc = "local_maxima"
  /\ sl_prev' = sl_scores
  /\ sl_scores' = sync_select_local_maxima(sl_scores)
  /\ sl_pc' = "mask"
  /\ UNCHANGED <<sl_in, exceptSelect>>

\* sync_mask_avg_false_positives (search_scores);
SelMask ==
  /\ sl_pc = "mask"
  /\ sl_prev' = sl_scores
  /\ sl_scores' = sync_mask_avg_false_positives(sl_scores)
  /\ sl_pc' = "threshold1"
  /\ UNCHANGED <<sl_in, exceptSelect>>

\* sync_select_threshold_and_n_best (search_scores, Params::sync_threshold2 * 0.75);
SelThreshold1 ==
  /\ sl_pc = "threshold1"
  /\ sl_prev' = sl_scores
  /\ sl_scores' = sync_select_threshold_and_n_best(sl_scores, FracNorm(3 * sync_threshold2, 4))
  /\ sl_pc' = "truncate"
  /\ UNCHANGED <<sl_in, exceptSelect>>

\* if (mode == Mode::CLIP) sync_select_truncate_n (search_scores, n_max);
SelTruncate ==
  /\ sl_pc = "truncate"
  /\ sl_prev' = sl_scores
  /\ sl_scores' = IF sl_in.mode = "CLIP"
                    THEN sync_select_truncate_n(sl_scores, Max(get_n_best, 5))
                    ELSE sl_scores
  /\ sl_pc' = "refine"
  /\ UNCHANGED <<sl_in, exceptSelect>>

\* search_refine: one job per score, one refined score per job; here no score
\* changes or one score moves away from its local mean, to a fine index
SelRefine ==
  \E moved \in 0..Len(sl_scores) :
    /\ sl_pc = "refine"
    /\ sl_prev' = sl_scores
    /\ sl_scores' = sort_by_index(
         [i \in 1..Len(sl_scores) |->
            IF i # moved THEN sl_scores[i]
            ELSE SearchScore(sl_scores[i].index + sync_search_fine,
                             FracInt(sl_scores[i].raw_quality.n + quality_sign(sl_scores[i])),
                             sl_scores[i].local_mean)])
    /\ sl_pc' = "threshold2"
    /\ UNCHANGED <<sl_in, exceptSelect>>

\* sync_select_threshold_and_n_best (search_scores, Params::sync_threshold2);
SelThreshold2 ==
  /\ sl_pc = "threshold2"
  /\ sl_prev' = sl_scores
  /\ sl_scores' = sync_select_threshold_and_n_best(sl_scores, FracInt(sync_threshold2))
  /\ sl_pc' = "sort"
  /\ UNCHANGED <<sl_in, exceptSelect>>

\* the sort by index before the KeyResult is filled
SelSort ==
  /\ sl_pc = "sort"
  /\ sl_prev' = sl_scores
  /\ sl_scores' = sort_by_index(sl_scores)
  /\ sl_pc' = "done"
  /\ UNCHANGED <<sl_in, exceptSelect>>

SelectNext ==
  \/ SelLocalMaxima \/ SelMask \/ SelThreshold1 \/ SelTruncate
  \/ SelRefine \/ SelThreshold2 \/ SelSort

-----------------------------------------------------------------------------
(* SyncFinder::get_sync_bits (audiowmark.cc).  UpDownGen, BitPosGen and the  *)
(* frame counts of a block are declared outside these files: a key is taken *)
(* by what its generators give, the up and down bands of every sync frame   *)
(* and the frame of the block it lies in.  Frames count within this pattern, *)
(* not in the blocks of the search above.                                    *)

mark_sync_frame_count == sync_bits * sync_frames_per_bit
first_block_end       == mark_sync_frame_count + mark_data_frame_count

\* the bands min_band..max_band, here as many as one draw of up and down uses
max_band == min_band + 2 * bands_per_frame - 1
Bands    == min_band..max_band

FrameBit(frame, up, down) == [frame |-> frame, up |-> up, down |-> down]

band_less(a, b)  == a < b
frame_less(a, b) == a.frame < b.frame

\* UpDownGen::get: bands_per_frame up bands and as many down bands, all
\* different, in the order drawn
UpDownDraws ==
  { [up   |-> [k \in 1..bands_per_frame |-> p[k]],
     down |-> [k \in 1..bands_per_frame |-> p[bands_per_frame + k]]] :
      p \in { q \in [1..(2 * bands_per_frame) -> Bands] :
                \A i, j \in 1..(2 * bands_per_frame) : i # j => q[i] # q[j] } }

SyncFrameIndices == 0..(mark_sync_frame_count - 1)

\* a key whose draws are the bands from the highest down, and whose sync
\* frames lie in the block from the last frame down
RefDraw ==
  [up   |-> [k \in 1..bands_per_frame |-> max_band + 1 - k],
   down |-> [k \in 1..bands_per_frame |-> max_band + 1 - bands_per_frame - k]]
RefKey ==
  [up_down    |-> [i \in SyncFrameIndices |-> RefDraw],
   sync_frame |-> [i \in SyncFrameIndices |-> first_block_end - 1 - i]]

\* BitPosGen::sync_frame gives every sync frame a frame of its own
sync_frames_differ(key) ==
  \A i, j \in SyncFrameIndices : i # j => key.sync_frame[i] # key.sync_frame[j]

\* the keys: RefKey with another draw for one sync frame, with one sync
\* frame moved, or with the frames of two sync frames exchanged
BitsKeys ==
  { [RefKey EXCEPT !.up_down[i] = d] : i \in SyncFrameIndices, d \in UpDownDraws }
  \cup { key \in { [RefKey EXCEPT !.sync_frame[i] = v] :
                     i \in SyncFrameIndices, v \in 0..(first_block_end - 1) } :
           sync_frames_differ(key) }
  \cup { [RefKey EXCEPT !.sync_frame[i] = RefKey.sync_frame[j],
                        !.sync_frame[j] = RefKey.sync_frame[i]] :
           i \in SyncFrameIndices, j \in SyncFrameIndices }

\* the body of the loop over block, without the exchange of up and down in
\* the second block
frame_bit_same(key, index, block) ==
  LET draw == key.up_down[index]
  IN  FrameBit(key.sync_frame[index] + block * first_block_end,
               StableSort([k \in 1..bands_per_frame |-> draw.up[k] - min_band], band_less),
               StableSort([k \in 1..bands_per_frame |-> draw.down[k] - min_band], band_less))

\* the body of the loop over block: one FrameBit
frame_bit(key, index, block) ==
  LET draw       == key.up_down[index]
      frame_up   == SubSeq([k \in 1..bands_per_frame |-> draw.up[k] - min_band],
                           1, bands_per_frame)
      frame_down == SubSeq([k \in 1..bands_per_frame |-> draw.down[k] - min_band],
                           1, bands_per_frame)
  IN  FrameBit(key.sync_frame[index] + block * first_block_end,
               StableSort(IF block = 0 THEN frame_up ELSE frame_down, band_less),
               StableSort(IF block = 0 THEN frame_down ELSE frame_up, band_less))

block_count(mode) == IF mode = "CLIP" THEN 2 ELSE 1

\* the body of the loop over bit: the sorted frame_bits of the bit
frame_bits(key, mode, bit) ==
  LET n == sync_frames_per_bit * block_count(mode)
  IN  StableSort(SubSeq([p \in 1..n |->
                    frame_bit(key, ((p - 1) \div block_count(mode)) + bit * sync_frames_per_bit,
                              (p - 1) % block_count(mode))], 1, n),
                 frame_less)

get_sync_bits(key, mode) ==
  SubSeq([b \in 1..sync_bits |-> frame_bits(key, mode, b - 1)], 1, sync_bits)

BitsInit ==
  /\ gs_in \in [key : BitsKeys, mode : Modes]
  /\ gs_pc = "loop"
  /\ gs_bit = 0
  /\ gs_sync_bits = <<>>

\* one pass of the loop over bit
BitsLoop ==
  /\ gs_pc = "loop" /\ gs_bit < sync_bits
  /\ gs_sync_bits' = Append(gs_sync_bits, frame_bits(gs_in.key, gs_in.mode, gs_bit))
  /\ gs_bit' = gs_bit + 1
  /\ UNCHANGED <<gs_pc, gs_in, exceptBits>>

\* return sync_bits;
BitsReturn ==
  /\ gs_pc = "loop" /\ ~(gs_bit < sync_bits)
  /\ gs_pc' = "done"
  /\ UNCHANGED <<gs_in, gs_bit, gs_sync_bits, exceptBits>>

BitsNext == BitsLoop \/ BitsReturn

-----------------------------------------------------------------------------
(* SyncFinder::sync_fft_parallel (audiowmark.cc), one job at a time: the    *)
(* jobs run in any order, each pushes its PartialFFTResult under the mutex, *)
(* and after wait_all the results are sorted and appended to the output.   *)
(* A row of fft_out_db, and with it an entry of have_frames, is named by   *)
(* the sample its frame starts at.                                          *)

PartialFFTResult(start_frame, rows) == [start_frame |-> start_frame, fft_db |-> rows]

start_frame_less(r1, r2) == r1.start_frame < r2.start_frame

\* the start frames of the loop that adds the jobs
fft_job_starts(input) == { f \in 0..(input.fc - 1) : f % frames_per_job = 0 }

\* the body of a job: the results vector after the job
fft_job(input, results, start_frame) ==
  LET remaining_frames == input.fc - 1 - start_frame
      frames           == Min(remaining_frames, frames_per_job)
  IN  IF frames > 0
        THEN Append(results,
                    PartialFFTResult(start_frame,
                      sync_fft(input.len, input.index + start_frame * frame_size, frames)))
        ELSE results

RECURSIVE concat_results(_)
concat_results(results) ==
  IF results = <<>> THEN <<>> ELSE Head(results).fft_db \o concat_results(Tail(results))

FFTInit ==
  /\ ff_in \in { [len |-> len, fc |-> fc, index |-> index] :
                   len \in Lengths, fc \in 0..(MaxFrames + 1),
                   index \in { s \in 0..(frame_size - 1) : s % sync_search_step = 0 } }
  /\ ff_in.fc \in frame_count(ff_in.len)
  /\ ff_pc = "jobs"
  /\ ff_jobs = fft_job_starts(ff_in)
  /\ partial_fft_results = <<>>
  /\ fft_out_db = <<>>

\* a job runs to its end
FFTJobRun ==
  \E start_frame \in ff_jobs :
    /\ ff_pc = "jobs"
    /\ partial_fft_results' = fft_job(ff_in, partial_fft_results, start_frame)
    /\ ff_jobs' = ff_jobs \ {start_frame}
    /\ UNCHANGED <<ff_pc, ff_in, fft_out_db, exceptFFT>>

\* the results appended in the order the jobs pushed them
FFTCollect_unsorted ==
  /\ ff_pc = "jobs" /\ ff_jobs = {}
  /\ fft_out_db' = concat_results(partial_fft_results)
  /\ ff_pc' = "done"
  /\ UNCHANGED <<ff_in, ff_jobs, partial_fft_results, exceptFFT>>

\* wait_all, the sort by start_frame, the loop that appends the results
FFTCollect ==
  /\ ff_pc = "jobs" /\ ff_jobs = {}
  /\ fft_out_db' = concat_results(StableSort(partial_fft_results, start_frame_less))
  /\ ff_pc' = "done"
  /\ UNCHANGED <<ff_in, ff_jobs, partial_fft_results, exceptFFT>>

FFTNext == FFTJobRun \/ FFTCollect

-----------------------------------------------------------------------------
(* SpeedSearch::get_jobs and SpeedSync::get_jobs (wmspeed.cc) for the       *)
(* parameters of any scan pass.  Speeds count in steps: the speed           *)
(* v * step^e is the number v + e, so pow (step, e) * v is v + e and       *)
(* x / center is x - center.                                                *)

\* c_speed with the centers 2 * n_steps steps apart
center_speed_overlap(scan_params, speed, c) == speed + c * (scan_params.n_steps * 2)

\* double c_speed = speed * pow (scan_params.step, c * (scan_params.n_steps * 2 + 1));
center_speed(scan_params, speed, c) == speed + c * (scan_params.n_steps * 2 + 1)

\* SpeedSync::get_jobs: relative_speed = pow (scan_params.step, p) * speed / center
relative_speed(scan_params, p, speed, center) == p + speed - center

\* SpeedSync::compare: the speed a search job tests, center * relative_speed
tested_speed(center, relative) == center + relative

\* SpeedSync::get_jobs: the speeds of the search jobs of one SpeedSync, p
\* from -n_steps to n_steps
RECURSIVE search_jobs_from(_, _, _, _)
search_jobs_from(scan_params, p, speed, center) ==
  IF p > scan_params.n_steps THEN <<>>
  ELSE <<tested_speed(center, relative_speed(scan_params, p, speed, center))>>
       \o search_jobs_from(scan_params, p + 1, speed, center)

sync_get_jobs(scan_params, speed, center) ==
  search_jobs_from(scan_params, -scan_params.n_steps, speed, center)

JobsInit ==
  /\ gj_in \in [n_steps : 0..MaxNSteps, n_center_steps : 0..MaxCenterSteps,
                speed : (UnitSpeed - 1)..(UnitSpeed + 1)]
  /\ gj_pc = "centers"
  /\ gj_c = -gj_in.n_center_steps
  /\ speed_sync = <<>>
  /\ gj_jobs = <<>>

\* one pass of the loop over c: a SpeedSync at c_speed
JobsCenter ==
  /\ gj_pc = "centers" /\ gj_c <= gj_in.n_center_steps
  /\ speed_sync' = Append(speed_sync, center_speed(gj_in, gj_in.speed, gj_c))
  /\ gj_c' = gj_c + 1
  /\ UNCHANGED <<gj_pc, gj_in, gj_jobs, exceptJobs>>

\* the end of the loop over c (speeds holds one speed here)
JobsCentersDone ==
  /\ gj_pc = "centers" /\ ~(gj_c <= gj_in.n_center_steps)
  /\ gj_pc' = "jobs"
  /\ UNCHANGED <<gj_in, gj_c, speed_sync, gj_jobs, exceptJobs>>

\* one pass of the loop over speed_sync: jobs.push_back (s->get_jobs (scan_params, s->center_speed()))
JobsGetJobs ==
  /\ gj_pc = "jobs" /\ Len(gj_jobs) < Len(speed_sync)
  /\ LET center == speed_sync[Len(gj_jobs) + 1]
     IN  gj_jobs' = Append(gj_jobs, sync_get_jobs(gj_in, center, center))
  /\ UNCHANGED <<gj_pc, gj_in, gj_c, speed_sync, exceptJobs>>

\* return jobs;
JobsReturn ==
  /\ gj_pc = "jobs" /\ ~(Len(gj_jobs) < Len(speed_sync))
  /\ gj_pc' = "done"
  /\ UNCHANGED <<gj_in, gj_c, speed_sync, gj_jobs, exceptJobs>>

JobsNext == JobsCenter \/ JobsCentersDone \/ JobsGetJobs \/ JobsReturn

-----------------------------------------------------------------------------
(* SpeedSync::compare and compare_bits (wmspeed.cc): the cursors begin and  *)
(* end over cmp_states and the rows of sync_matrix that are read.  The      *)
(* relative speed is a fraction <<n, d>>; the products in double are        *)
(* computed exactly and converted to int as the program does, towards 0.    *)

steps_per_frame == frame_size \div sync_search_step

\* the conversion of the quotient a / b to int, b > 0
to_int(a, b) == IF a >= 0 THEN a \div b ELSE -((-a) \div b)

\* x >> OFFSET_SHIFT, OFFSET_SHIFT = 16
offset_shift(x) == x \div 65536

\* SpeedSync::SpeedSync: the SyncBits of the BLOCK pattern of the key, sorted by frame
SyncBit(bit, frame) == [bit |-> bit, frame |-> frame]

RECURSIVE sync_bits_from(_, _)
sync_bits_from(pattern, bit) ==
  IF bit > Len(pattern) THEN <<>>
  ELSE SubSeq([i \in 1..Len(pattern[bit]) |-> SyncBit(bit - 1, pattern[bit][i].frame)],
              1, Len(pattern[bit]))
       \o sync_bits_from(pattern, bit + 1)

speed_sync_bits(key) ==
  StableSort(sync_bits_from(get_sync_bits(key, "BLOCK"), 1), frame_less)

\* compare: pad_start and the offsets of cmp_states
pad_start == first_block_end * steps_per_frame + steps_per_frame

cmp_states(speed) ==
  SubSeq([k \in 1..pad_start |->
            to_int((k - 1 - pad_start) * 65536 * speed[2], speed[1])], 1, pad_start)

\* compare_bits: frame_offset of a sync bit
frame_offset(block, frame, speed) ==
  to_int(((block * first_block_end + frame) * steps_per_frame * speed[2] * 2 + speed[1]) * 65536,
         2 * speed[1])

\* while (begin > cmp_states.begin()): begin moves down while the state
\* before it has offset + frame_offset >= 0
RECURSIVE move_begin(_, _, _)
move_begin(states, begin, offset) ==
  IF begin > 0
    THEN IF states[begin] + offset < 0 THEN begin ELSE move_begin(states, begin - 1, offset)
    ELSE begin

\* the second loop with the test index <= sync_matrix.rows()
RECURSIVE move_end_inclusive(_, _, _, _)
move_end_inclusive(states, end, offset, rows) ==
  IF end > 0
    THEN IF offset_shift(states[end] + offset) <= rows
           THEN end
           ELSE move_end_inclusive(states, end - 1, offset, rows)
    ELSE end

\* while (end > cmp_states.begin()): end moves down while the state before
\* it has an index that is not < sync_matrix.rows()
RECURSIVE move_end(_, _, _, _)
move_end(states, end, offset, rows) ==
  IF end > 0
    THEN IF offset_shift(states[end] + offset) < rows
           THEN end
           ELSE move_end(states, end - 1, offset, rows)
    ELSE end

\* keys that differ in the frames of their sync bits
CmpKeys   == { key \in BitsKeys : key.up_down = RefKey.up_down }
CmpSpeeds == { <<1, 2>>, <<9, 10>>, <<1, 1>>, <<11, 10>>, <<2, 1>> }

CmpInit ==
  /\ \E key \in CmpKeys :
       LET sync_bits_of_key == speed_sync_bits(key)
       IN  cb_in \in [sync_bits : {sync_bits_of_key}, speed : CmpSpeeds, rows : 0..MaxRows]
  /\ cb_pc = "bits"
  /\ cb_block = 0 /\ cb_mi = 0
  /\ cb_begin = pad_start /\ cb_end = pad_start
  /\ cb_rows = {}

\* one pass of the loop over mi: the two cursor loops, then the loop from
\* begin to end that reads sync_matrix (index, mi); if begin is beyond end
\* that loop runs on past the last state
CmpBitsStep ==
  /\ cb_pc = "bits" /\ cb_mi < Len(cb_in.sync_bits)
  /\ LET states == cmp_states(cb_in.speed)
         offset == frame_offset(cb_block, cb_in.sync_bits[cb_mi + 1].frame,
                                cb_in.speed)
         begin  == move_begin(states, cb_begin, offset)
         end    == move_end(states, cb_end, offset, cb_in.rows)
     IN  /\ cb_begin' = begin
         /\ cb_end' = end
         /\ cb_rows' = { offset_shift(states[it] + offset) :
                           it \in (begin + 1)..(IF begin <= end THEN end ELSE pad_start) }
  /\ cb_mi' = cb_mi + 1
  /\ UNCHANGED <<cb_pc, cb_in, cb_block, exceptCmp>>

\* compare_bits<BLOCK> returns, compare_bits<BLOCK + 1> begins
CmpNextBlock ==
  /\ cb_pc = "bits" /\ ~(cb_mi < Len(cb_in.sync_bits)) /\ cb_block < 2
  /\ cb_block' = cb_block + 1
  /\ cb_mi' = 0
  /\ cb_begin' = pad_start /\ cb_end' = pad_start
  /\ cb_rows' = {}
  /\ UNCHANGED <<cb_pc, cb_in, exceptCmp>>

\* compare_bits<2> returns
CmpReturn ==
  /\ cb_pc = "bits" /\ ~(cb_mi < Len(cb_in.sync_bits)) /\ cb_block = 2
  /\ cb_pc' = "done"
  /\ UNCHANGED <<cb_in, cb_block, cb_mi, cb_begin, cb_end, cb_rows, exceptCmp>>

CmpNext == CmpBitsStep \/ CmpNextBlock \/ CmpReturn

-----------------------------------------------------------------------------
(* StdoutWavOutputStream (stdoutwavoutputstream.cc): open, write_frames and *)
(* close.  Whether the converter can be created and whether a write to      *)
(* stdout fails are choices of the environment; the error indicator of      *)
(* stdout stays set once a write has failed.                                *)

\* AudioInputStream::N_FRAMES_UNKNOWN, ~size_t (0); only its parity is used
N_FRAMES_UNKNOWN == -1

OpenArgs ==
  [encoding : {"SIGNED", "FLOAT"}, bit_depth : {8, 16, 24, 32, 64},
   n_channels : {1, 2}, n_frames : {0, 1, 2, N_FRAMES_UNKNOWN}, wav_pipe : BOOLEAN]

IdleOpen ==
  [encoding |-> "SIGNED", bit_depth |-> 16, n_channels |-> 2, n_frames |-> 0,
   wav_pipe |-> FALSE]

\* open: the tests of bit depth and frame count
open_args_error(a) ==
  \/ a.encoding = "FLOAT" /\ a.bit_depth # 32 /\ a.bit_depth # 64
  \/ a.encoding # "FLOAT" /\ a.bit_depth # 16 /\ a.bit_depth # 24 /\ a.bit_depth # 32
  \/ a.n_frames = N_FRAMES_UNKNOWN /\ ~a.wav_pipe

\* open: data_size & 1
data_size(a) == a.n_frames * a.n_channels * ((a.bit_depth + 7) \div 8)
close_padding(a) == data_size(a) % 2

LastCall(op, ret, wrote) == [op |-> op, ret |-> ret, wrote |-> wrote]

WavInit ==
  /\ m_state = "NEW" /\ m_close_padding = 0 /\ ws_in = IdleOpen
  /\ ws_stdout = [error |-> FALSE, padding |-> 0]
  /\ ws_last = LastCall("none", "NONE", 0)
  /\ ws_closes = 0 /\ ws_calls = 0

\* open returns an error before anything is written
WavOpenRefuse ==
  /\ m_state = "NEW" /\ ws_calls < MaxCalls
  /\ \E a \in OpenArgs, create_fails \in BOOLEAN :
       /\ open_args_error(a) \/ create_fails
       /\ ws_in' = a
  /\ ws_last' = LastCall("open", "ERROR", 0)
  /\ ws_calls' = ws_calls + 1
  /\ UNCHANGED <<m_state, m_close_padding, ws_stdout, ws_closes, exceptWav>>

\* open writes the header
WavOpenHeader ==
  /\ m_state = "NEW" /\ ws_calls < MaxCalls
  /\ \E a \in OpenArgs, write_fails \in BOOLEAN :
       /\ ~open_args_error(a)
       /\ ws_in' = a
       /\ m_close_padding' = close_padding(a)
       /\ ws_stdout' = [ws_stdout EXCEPT !.error = @ \/ write_fails]
       /\ IF ws_stdout'.error
            THEN /\ ws_last' = LastCall("open", "ERROR", 0)
                 /\ UNCHANGED m_state
            ELSE /\ ws_last' = LastCall("open", "NONE", 0)
                 /\ m_state' = "OPEN"
  /\ ws_closes' = 0
  /\ ws_calls' = ws_calls + 1
  /\ UNCHANGED exceptWav

\* write_frames: no samples, or blocks written until a write fails
WavWriteFrames ==
  /\ m_state = "OPEN" /\ ws_calls < MaxCalls
  /\ \E empty \in BOOLEAN, write_fails \in BOOLEAN :
       IF empty
         THEN /\ ws_last' = LastCall("write_frames", "NONE", 0)
              /\ UNCHANGED ws_stdout
         ELSE /\ ws_stdout' = [ws_stdout EXCEPT !.error = @ \/ write_fails]
              /\ ws_last' = LastCall("write_frames",
                                     IF ws_stdout'.error THEN "ERROR" ELSE "NONE", 0)
  /\ ws_calls' = ws_calls + 1
  /\ UNCHANGED <<m_state, m_close_padding, ws_in, ws_closes, exceptWav>>

\* close of a stream that is not OPEN
WavCloseIgnored ==
  /\ m_state # "OPEN" /\ ws_calls < MaxCalls
  /\ ws_last' = LastCall("close", "NONE", 0)
  /\ ws_closes' = IF m_state = "CLOSED" THEN ws_closes + 1 ELSE ws_closes
  /\ ws_calls' = ws_calls + 1
  /\ UNCHANGED <<m_state, m_close_padding, ws_in, ws_stdout, exceptWav>>

\* close of an OPEN stream: the padding bytes, then the flush
WavClose ==
  /\ m_state = "OPEN" /\ ws_calls < MaxCalls
  /\ \E put_fails \in BOOLEAN, flush_fails \in BOOLEAN :
       LET put   == IF m_close_padding > 0 THEN 1 ELSE 0
           error == ws_stdout.error \/ (put = 1 /\ put_fails)
                    \/ ((put = 0 \/ ~(ws_stdout.error \/ put_fails)) /\ flush_fails)
       IN  /\ ws_stdout' = [error |-> error, padding |-> ws_stdout.padding + put]
           /\ ws_last' = LastCall("close", IF error THEN "ERROR" ELSE "NONE", put)
           /\ m_state' = IF error THEN m_state ELSE "CLOSED"
  /\ ws_closes' = ws_closes + 1
  /\ ws_calls' = ws_calls + 1
  /\ UNCHANGED <<m_close_padding, ws_in, exceptWav>>

WavNext == WavOpenRefuse \/ WavOpenHeader \/ WavWriteFrames \/ WavCloseIgnored \/ WavClose

-----------------------------------------------------------------------------
(* detect_speed (wmspeed.cc), from the test of the signal length to the     *)
(* returned vector.  The scores a key has after the third pass are part of  *)
(* the input; how a pass produces them is the subject of SpecRun, SpecSpeed *)

\* a length test that lets every signal pass
too_short_never(n_frames) == FALSE

\* in_seconds = n_frames / sample_rate; in_seconds < 0.25
too_short(n_frames) == 4 * n_frames < SampleRate

\* the jobs run_search adds for a key: a prepare job and the search jobs of
\* its SpeedSync
key_jobs == 1 + (2 * NSteps + 1)

\* the scores of the third pass of a key: those of a SpeedSync around center,
\* each job with a quality at the threshold or above it
DetectQualities == {speed_sync_threshold, MaxQuality}
Scan3Scores ==
  { scores_in_order([centers |-> <<center>>, quality |-> <<q>>], 1) :
      center \in {UnitSpeed, UnitSpeed + 1}, q \in [SearchSteps -> DetectQualities] }

DetectInit ==
  /\ dt_in \in UNION { [n_frames : 0..MaxSamples,
                        keys     : {[k \in 1..n |-> k]},
                        scan3    : [1..n -> Scan3Scores]] : n \in 0..MaxKeys }
  /\ dt_pc = "start"
  /\ dt_searches = <<>>
  /\ dt_jobs = 0
  /\ dt_pass = 0
  /\ dt_k = 1
  /\ dt_results = <<>>

\* if (in_seconds < 0.25) return results;
DetectTooShort ==
  /\ dt_pc = "start"
  /\ too_short(dt_in.n_frames)
  /\ dt_pc' = "done"
  /\ UNCHANGED <<dt_in, dt_searches, dt_jobs, dt_pass, dt_k, dt_results, exceptDetect>>

\* the loop over key_list: a SpeedSearch for each key
DetectBuild ==
  /\ dt_pc = "start"
  /\ ~too_short(dt_in.n_frames)
  /\ dt_searches' = dt_in.keys
  /\ dt_pc' = "search"
  /\ UNCHANGED <<dt_in, dt_jobs, dt_pass, dt_k, dt_results, exceptDetect>>

\* run_search with scan1, scan2, scan3: the jobs of every key go to the pool
DetectRunSearch ==
  /\ dt_pc = "search"
  /\ dt_jobs' = dt_jobs + Len(dt_searches) * key_jobs
  /\ dt_pass' = dt_pass + 1
  /\ dt_pc' = IF dt_pass' = 3 THEN "report" ELSE "search"
  /\ UNCHANGED <<dt_in, dt_searches, dt_k, dt_results, exceptDetect>>

\* the final loop over key_speed_search_vec, one key
DetectReportKey ==
  /\ dt_pc = "report"
  /\ dt_k <= Len(dt_searches)
  /\ LET speeds == report_speed(dt_in.scan3[dt_k])
     IN  dt_results' = dt_results \o
           [i \in 1..Len(speeds) |-> [key |-> dt_searches[dt_k], speed |-> speeds[i]]]
  /\ dt_k' = dt_k + 1
  /\ UNCHANGED <<dt_pc, dt_in, dt_searches, dt_jobs, dt_pass, exceptDetect>>

\* return results;
DetectReturn ==
  /\ dt_pc = "report"
  /\ dt_k > Len(dt_searches)
  /\ dt_pc' = "done"
  /\ UNCHANGED <<dt_in, dt_searches, dt_jobs, dt_pass, dt_k, dt_results, exceptDetect>>

DetectNext ==
  DetectTooShort \/ DetectBuild \/ DetectRunSearch \/ DetectReportKey \/ DetectReturn

-----------------------------------------------------------------------------
(* Idle values of the parts a specification does not drive *)

SplitIdle == sj_pc = "idle" /\ sj_in = <<0, 1>> /\ sj = SplitState(0)
BQIdle    == bq_pc = "idle" /\ bq_in = [umag |-> 0, dmag |-> 0, bit |-> 0] /\ bq_out = FracInt(0)

RunIdle ==
  /\ rs_pc = "idle" /\ rs_cfg = [n_jobs |-> 0, n_threads |-> 1]
  /\ rs_loop = [split |-> <<>>, start |-> 0, count |-> 0, i |-> 0]
  /\ pool_queue = <<>> /\ pool_running = {}
  /\ sync_matrix = <<>> /\ result_scores = <<>>

SearchIdle ==
  /\ sf_pc = "idle"
  /\ sf_in = [len |-> 0, fc |-> 0, mode |-> "BLOCK", q |-> RefSignal, fill |-> "left"]
  /\ sf_shift = 0 /\ fft_db = <<>>
  /\ sf_queue = <<>> /\ sf_running = {}
  /\ key_scores = <<>> /\ refine_scores = <<>> /\ sync_scores = <<>>

SpeedIdle ==
  /\ sp_pc = "idle" /\ sp_in = [centers |-> <<>>, quality |-> <<>>]
  /\ sp_pending = {} /\ sp_result_scores = <<>> /\ sp_scores = <<>>
  /\ sp_out = [kind |-> "none"]

KeysIdle ==
  /\ sk_pc = "idle"
  /\ sk_in = [keys |-> <<>>, len |-> 0, fc |-> 0, mode |-> "BLOCK", fill |-> "left",
              q |-> <<>>, test_no_sync |-> FALSE]
  /\ search_key_results = <<>> /\ sk_k = 1 /\ key_results = <<>>

SelectIdle ==
  /\ sl_pc = "idle" /\ sl_in = [mode |-> "BLOCK", scores |-> <<>>]
  /\ sl_prev = <<>> /\ sl_scores = <<>>

\* the default of Params::get_n_best
ParamsIdle == get_n_best = 0

WavIdle ==
  /\ m_state = "NEW" /\ m_close_padding = 0 /\ ws_in = IdleOpen
  /\ ws_stdout = [error |-> FALSE, padding |-> 0]
  /\ ws_last = [op |-> "none", ret |-> "NONE", wrote |-> 0]
  /\ ws_closes = 0 /\ ws_calls = 0

CmpIdle ==
  /\ cb_pc = "idle" /\ cb_in = [sync_bits |-> <<>>, speed |-> <<1, 1>>, rows |-> 0]
  /\ cb_block = 0 /\ cb_mi = 0 /\ cb_begin = 0 /\ cb_end = 0 /\ cb_rows = {}

JobsIdle ==
  /\ gj_pc = "idle" /\ gj_in = [n_steps |-> 0, n_center_steps |-> 0, speed |-> 0]
  /\ gj_c = 0 /\ speed_sync = <<>> /\ gj_jobs = <<>>

FFTIdle ==
  /\ ff_pc = "idle" /\ ff_in = [len |-> 0, fc |-> 0, index |-> 0]
  /\ ff_jobs = {} /\ partial_fft_results = <<>> /\ fft_out_db = <<>>

BitsIdle ==
  /\ gs_pc = "idle" /\ gs_in = [key |-> <<>>, mode |-> "BLOCK"]
  /\ gs_bit = 0 /\ gs_sync_bits = <<>>

DetectIdle ==
  /\ dt_pc = "idle" /\ dt_in = [n_frames |-> 0, keys |-> <<>>, scan3 |-> <<>>]
  /\ dt_searches = <<>> /\ dt_jobs = 0 /\ dt_pass = 0 /\ dt_k = 1 /\ dt_results = <<>>

InitSplit == SplitInit /\ BQIdle /\ RunIdle /\ SearchIdle /\ SpeedIdle /\ DetectIdle /\ ParamsIdle /\ KeysIdle /\ SelectIdle /\ BitsIdle /\ FFTIdle /\ JobsIdle /\ CmpIdle /\ WavIdle
SpecSplit == InitSplit /\ [][SplitNext]_vars

\* split_jobs runs on one thread that is not stopped: a statement that can be
\* taken is taken
SpecSplitFair == SpecSplit /\ WF_vars(SplitNext)

InitBQ == BQInit /\ SplitIdle /\ RunIdle /\ SearchIdle /\ SpeedIdle /\ DetectIdle /\ ParamsIdle /\ KeysIdle /\ SelectIdle /\ BitsIdle /\ FFTIdle /\ JobsIdle /\ CmpIdle /\ WavIdle
NextBQ == BQCall
SpecBQ == InitBQ /\ [][NextBQ]_vars

InitRun == RunInit /\ SplitIdle /\ BQIdle /\ SearchIdle /\ SpeedIdle /\ DetectIdle /\ ParamsIdle /\ KeysIdle /\ SelectIdle /\ BitsIdle /\ FFTIdle /\ JobsIdle /\ CmpIdle /\ WavIdle
SpecRun == InitRun /\ [][RunNext]_vars

InitSearch ==
  /\ SearchInit /\ SplitIdle /\ BQIdle /\ RunIdle /\ SpeedIdle /\ DetectIdle
  /\ get_n_best \in 0..MaxNBest
  /\ KeysIdle /\ SelectIdle /\ BitsIdle /\ FFTIdle /\ JobsIdle /\ CmpIdle /\ WavIdle
SpecSearch == InitSearch /\ [][SearchNext]_vars

InitSpeed == SpeedInit /\ SplitIdle /\ BQIdle /\ RunIdle /\ SearchIdle /\ DetectIdle /\ ParamsIdle /\ KeysIdle /\ SelectIdle /\ BitsIdle /\ FFTIdle /\ JobsIdle /\ CmpIdle /\ WavIdle
SpecSpeed == InitSpeed /\ [][SpeedNext]_vars

InitDetect == DetectInit /\ SplitIdle /\ BQIdle /\ RunIdle /\ SearchIdle /\ SpeedIdle /\ ParamsIdle /\ KeysIdle /\ SelectIdle /\ BitsIdle /\ FFTIdle /\ JobsIdle /\ CmpIdle /\ WavIdle
SpecDetect == InitDetect /\ [][DetectNext]_vars

InitKeys ==
  /\ KeysInit /\ SplitIdle /\ BQIdle /\ RunIdle /\ SearchIdle /\ SpeedIdle /\ DetectIdle
  /\ get_n_best \in 0..MaxNBest
  /\ SelectIdle /\ BitsIdle /\ FFTIdle /\ JobsIdle /\ CmpIdle /\ WavIdle
SpecKeys == InitKeys /\ [][KeysNext]_vars

\* get_n_best below the 5 of the ClipDecoder, and above it
InitSelect ==
  /\ SelectInit /\ SplitIdle /\ BQIdle /\ RunIdle /\ SearchIdle /\ SpeedIdle /\ DetectIdle
  /\ KeysIdle /\ BitsIdle /\ FFTIdle /\ JobsIdle /\ CmpIdle /\ WavIdle
  /\ get_n_best \in (0..MaxNBest) \cup {5 + MaxNBest}
SpecSelect == InitSelect /\ [][SelectNext]_vars

InitBits == BitsInit /\ SplitIdle /\ BQIdle /\ RunIdle /\ SearchIdle /\ SpeedIdle /\ DetectIdle /\ ParamsIdle /\ KeysIdle /\ SelectIdle /\ FFTIdle /\ JobsIdle /\ CmpIdle /\ WavIdle
SpecBits == InitBits /\ [][BitsNext]_vars

InitFFT == FFTInit /\ SplitIdle /\ BQIdle /\ RunIdle /\ SearchIdle /\ SpeedIdle /\ DetectIdle /\ ParamsIdle /\ KeysIdle /\ SelectIdle /\ BitsIdle /\ JobsIdle /\ CmpIdle /\ WavIdle
SpecFFT == InitFFT /\ [][FFTNext]_vars

InitJobs == JobsInit /\ SplitIdle /\ BQIdle /\ RunIdle /\ SearchIdle /\ SpeedIdle /\ DetectIdle /\ ParamsIdle /\ KeysIdle /\ SelectIdle /\ BitsIdle /\ FFTIdle /\ CmpIdle /\ WavIdle
SpecJobs == InitJobs /\ [][JobsNext]_vars

InitCmp == CmpInit /\ SplitIdle /\ BQIdle /\ RunIdle /\ SearchIdle /\ SpeedIdle /\ DetectIdle /\ ParamsIdle /\ KeysIdle /\ SelectIdle /\ BitsIdle /\ FFTIdle /\ JobsIdle /\ WavIdle
SpecCmp == InitCmp /\ [][CmpNext]_vars

InitWav == WavInit /\ SplitIdle /\ BQIdle /\ RunIdle /\ SearchIdle /\ SpeedIdle /\ DetectIdle /\ ParamsIdle /\ KeysIdle /\ SelectIdle /\ BitsIdle /\ FFTIdle /\ JobsIdle /\ CmpIdle
SpecWav == InitWav /\ [][WavNext]_vars

-----------------------------------------------------------------------------
(* Claims about split_jobs, checked under SpecSplit *)

CeilDiv(a, b) == (a + b - 1) \div b

\* C1: for every job count J >= 0 and thread count T >= 1 the batch sizes
\* returned by split_jobs(J, T) sum to exactly J.
C1_SplitSumIsJobs ==
  sj_pc = "return" => SeqSum(sj.split) = sj_in[1]

\* a call that took the loop, the halving step and the final step
C1_Witness ==
  /\ sj_pc = "return"
  /\ sj_in[1] > 2 * sj_in[2]
  /\ Len(sj.split) >= 3
  /\ SeqSum(sj.split) = sj_in[1]

\* C2: for every J >= 0 and T >= 1 no batch returned by split_jobs(J, T) is
\* larger than T (stated of the vector at every statement, so also of the result).
C2_SplitBatchAtMostThreads ==
  \A i \in 1..Len(sj.split) : sj.split[i] <= sj_in[2]

\* a returned vector that holds a batch of T and a halved batch of T as well
C2_Witness ==
  /\ sj_pc = "return"
  /\ sj_in[1] = 3 * sj_in[2]
  /\ sj_in[2] >= 2
  /\ \A i \in 1..Len(sj.split) : sj.split[i] = sj_in[2]

\* the partition as the claim words it: T while more than 2T remain, then
\* [ceil(r/2), floor(r/2)] if r > T, otherwise the single batch [r]
RECURSIVE RefPartition(_, _)
RefPartition(r, T) ==
  IF r > 2 * T THEN <<T>> \o RefPartition(r - T, T)
  ELSE IF r > T THEN <<(r + 1) \div 2, r \div 2>>
  ELSE <<r>>

\* the same partition with no batch for r = 0
RECURSIVE RefPartitionNoZero(_, _)
RefPartitionNoZero(r, T) ==
  IF r > 2 * T THEN <<T>> \o RefPartitionNoZero(r - T, T)
  ELSE IF r > T THEN <<(r + 1) \div 2, r \div 2>>
  ELSE IF r > 0 THEN <<r>>
  ELSE <<>>

\* the examples of the claim and of the comment table above split_jobs
SplitExamples ==
  /\ split_jobs(65, 32) = <<32, 17, 16>>
  /\ split_jobs(36, 32) = <<18, 18>>
  /\ split_jobs(5, 32)  = <<5>>
  /\ split_jobs(33, 32) = <<17, 16>>
  /\ split_jobs(63, 32) = <<32, 31>>
  /\ split_jobs(64, 32) = <<32, 32>>
  /\ split_jobs(66, 32) = <<32, 17, 17>>

\* C3 as stated: split_jobs(J, T) equals the reference partition (single batch
\* [r] whenever r <= T), has ceil(J/T) batches, and yields the listed examples.
C3_Original_SplitIsRefPartition ==
  /\ SplitExamples
  /\ sj_pc = "return" =>
       /\ sj.split = RefPartition(sj_in[1], sj_in[2])
       /\ Len(sj.split) = CeilDiv(sj_in[1], sj_in[2])

\* C3 (amended): split_jobs(J, T) equals the reference partition in which a
\* remainder r <= T gives the single batch [r] only if r > 0 and no batch if
\* r = 0; the number of batches is ceil(J/T); the examples hold; and the
\* function called as a whole returns what its statements build.
C3_SplitIsRefPartitionNoZero ==
  /\ SplitExamples
  /\ sj_pc = "return" =>
       /\ sj.split = RefPartitionNoZero(sj_in[1], sj_in[2])
       /\ Len(sj.split) = CeilDiv(sj_in[1], sj_in[2])
       /\ sj.split = split_jobs(sj_in[1], sj_in[2])

\* a call whose remainder after the loop is odd: [.., T, ceil(r/2), floor(r/2)]
C3_Witness ==
  /\ sj_pc = "return"
  /\ Len(sj.split) >= 3
  /\ sj.split[1] = sj_in[2]
  /\ sj.split[Len(sj.split) - 1] = sj.split[Len(sj.split)] + 1

-----------------------------------------------------------------------------
(* Claims about bit_quality, checked under SpecBQ.  Magnitudes are counted  *)
(* in halves: 1.0 is 2 and 0.5 is 1.                                        *)

Half     == [n |-> 1, d |-> 2]

\* C9 as stated: bit_quality(1.0, 1.0, 0) = 0, bit_quality(1.0, 0.5, 1) = 0.5,
\* bit_quality(0.5, 1.0, 1) = -0.5, and for an odd bit the result is positive
\* when umag > dmag > 0 and negative when 0 < umag < dmag.
C9_Original_BitQualitySigns ==
  bq_pc = "ret" =>
    /\ bq_in = [umag |-> 2, dmag |-> 2, bit |-> 0] => FracEq(bq_out, FracZero)
    /\ bq_in = [umag |-> 2, dmag |-> 1, bit |-> 1] => FracEq(bq_out, Half)
    /\ bq_in = [umag |-> 1, dmag |-> 2, bit |-> 1] => FracEq(bq_out, FracNeg(Half))
    /\ bq_in.bit % 2 = 1 =>
         /\ (bq_in.umag > bq_in.dmag /\ bq_in.dmag > 0) => FracLt(FracZero, bq_out)
         /\ (0 < bq_in.umag /\ bq_in.umag < bq_in.dmag) => FracLt(bq_out, FracZero)

\* C9 (amended): bit_quality(1.0, 1.0, 0) = 0, bit_quality(1.0, 0.5, 1) = -0.5,
\* bit_quality(0.5, 1.0, 1) = 0.5, and for an odd bit the result is negative
\* when umag > dmag > 0 and positive when 0 < umag < dmag.
C9_BitQualitySigns ==
  bq_pc = "ret" =>
    /\ bq_in = [umag |-> 2, dmag |-> 2, bit |-> 0] => FracEq(bq_out, FracZero)
    /\ bq_in = [umag |-> 2, dmag |-> 1, bit |-> 1] => FracEq(bq_out, FracNeg(Half))
    /\ bq_in = [umag |-> 1, dmag |-> 2, bit |-> 1] => FracEq(bq_out, Half)
    /\ bq_in.bit % 2 = 1 =>
         /\ (bq_in.umag > bq_in.dmag /\ bq_in.dmag > 0) => FracLt(bq_out, FracZero)
         /\ (0 < bq_in.umag /\ bq_in.umag < bq_in.dmag) => FracLt(FracZero, bq_out)

\* the call bit_quality(1.0, 0.5, 1) has returned -0.5
C9_Witness ==
  /\ bq_pc = "ret"
  /\ bq_in = [umag |-> 2, dmag |-> 1, bit |-> 1]
  /\ FracEq(bq_out, FracNeg(Half))

InUnitRange(q) == FracLe(FracInt(-1), q) /\ FracLe(q, FracInt(1))

\* C10 as stated: for all magnitudes the callers can pass, negative and
\* mixed-sign values included, and every bit index, the result lies in [-1, 1].
C10_Original_BitQualityRange ==
  bq_pc = "ret" => InUnitRange(bq_out)

\* the magnitudes for which the quotient of the smaller by the larger
\* is taken of two values of one sign, at most a factor of two apart if negative
BoundedMags(umag, dmag) ==
  \/ umag = 0 \/ dmag = 0
  \/ umag > 0 /\ dmag > 0
  \/ /\ umag < 0 /\ dmag < 0
     /\ Abs(umag) <= 2 * Abs(dmag)
     /\ Abs(dmag) <= 2 * Abs(umag)

\* C10 (amended): the result lies in [-1, 1] for every bit index when umag or
\* dmag is 0, when both are positive, and when both are negative and neither
\* is more than twice the other in absolute value.
C10_BitQualityRange ==
  (bq_pc = "ret" /\ BoundedMags(bq_in.umag, bq_in.dmag)) => InUnitRange(bq_out)

\* two negative magnitudes a factor of two apart reach the end of the range
C10_Witness ==
  /\ bq_pc = "ret"
  /\ bq_in.umag < 0
  /\ bq_in.dmag = 2 * bq_in.umag
  /\ bq_in.bit % 2 = 0
  /\ FracEq(bq_out, FracInt(-1))

\* C11: bit_quality(umag, dmag, 0) = -bit_quality(umag, dmag, 1), and the bit
\* index counts only through its parity: the result of a call is that of
\* every bit index of the same parity and the negative of that of every bit
\* index of the other parity.
C11_BitQualityParity ==
  bq_pc = "ret" =>
    /\ FracEq(bit_quality(bq_in.umag, bq_in.dmag, 0),
              FracNeg(bit_quality(bq_in.umag, bq_in.dmag, 1)))
    /\ FracEq(bq_out, bit_quality(bq_in.umag, bq_in.dmag, bq_in.bit % 2))
    /\ \A bit \in 0..MaxBit :
         IF bit % 2 = bq_in.bit % 2
           THEN FracEq(bq_out, bit_quality(bq_in.umag, bq_in.dmag, bit))
           ELSE FracEq(bq_out, FracNeg(bit_quality(bq_in.umag, bq_in.dmag, bit)))

\* a call with an odd bit index other than 1 has returned a result that is
\* not 0
C11_Witness ==
  /\ bq_pc = "ret"
  /\ bq_in.bit > 1 /\ bq_in.bit % 2 = 1
  /\ ~FracEq(bq_out, FracZero)
  /\ FracEq(bq_out, bit_quality(bq_in.umag, bq_in.dmag, 1))

\* C12: bit_quality(umag, dmag, bit) is 0 if and only if umag = 0 or
\* dmag = 0 or umag = dmag; a zero magnitude is answered with 0 and is
\* never a divisor.
C12_BitQualityZero ==
  bq_pc = "ret" =>
    /\ bq_out.d # 0
    /\ FracEq(bq_out, FracZero) <=>
          (bq_in.umag = 0 \/ bq_in.dmag = 0 \/ bq_in.umag = bq_in.dmag)

\* a call with umag = 0 and another dmag has returned 0
C12_Witness ==
  /\ bq_pc = "ret"
  /\ bq_in.umag = 0 /\ bq_in.dmag # 0
  /\ FracEq(bq_out, FracZero)

-----------------------------------------------------------------------------
(* Claims about run_search, checked under SpecRun *)

\* the SpeedSyncs of the batch the main thread is executing
CurBatch == { k \in Syncs(rs_cfg.n_jobs) :
                rs_loop.start <= k /\ k < rs_loop.start + rs_loop.count }

QueuedJobs == { pool_queue[k] : k \in 1..Len(pool_queue) }

\* the matrices that hold memory: resized by a prepare job and not yet freed
LiveMatrices == { k \in Syncs(rs_cfg.n_jobs) : sync_matrix[k] \in {"writing", "ready"} }

\* C4: under any interleaving of the workers, while a search job of a SpeedSync
\* runs every prepare job of its batch has finished and no matrix of the batch
\* is being written or has been freed (so the matrix it reads is prepared); and
\* while the batch's free_memory hooks run no search job of the batch is queued
\* or running and each SpeedSync of the batch has all its scores.
C4_SearchBetweenPrepareAndFree ==
  /\ \A job \in pool_running :
       job.kind = "search" =>
         /\ job.sync \in CurBatch
         /\ \A k \in CurBatch : sync_matrix[k] = "ready"
         /\ \A other \in pool_running \cup QueuedJobs : other.kind = "search"
  /\ rs_pc = "free" =>
       /\ wait_all_returns(pool_queue, pool_running)
       /\ \A k \in CurBatch : Len(result_scores[k]) = 2 * NSteps + 1

\* two workers run search jobs of a batch of several SpeedSyncs, after an
\* earlier batch was freed
C4_Witness ==
  /\ rs_loop.start > 0
  /\ rs_loop.count >= 2
  /\ \E j1, j2 \in pool_running :
       j1.kind = "search" /\ j2.kind = "search" /\ j1.sync # j2.sync

\* C5: at every moment of run_search at most n_threads matrices are prepared
\* (or being prepared) and not yet freed, and while a prepare job of a batch is
\* queued or running every matrix of the earlier batches has been freed.
C5_AtMostThreadsMatrices ==
  /\ Cardinality(LiveMatrices) <= rs_cfg.n_threads
  /\ \A job \in pool_running \cup QueuedJobs :
       job.kind = "prepare" =>
         \A k \in Syncs(rs_cfg.n_jobs) : k < rs_loop.start => sync_matrix[k] = "freed"

\* a later batch holds as many matrices as the pool has threads
C5_Witness ==
  /\ rs_cfg.n_threads >= 2
  /\ rs_loop.start > 0
  /\ Cardinality(LiveMatrices) = rs_cfg.n_threads
  /\ \E k \in CurBatch : sync_matrix[k] = "writing"


-----------------------------------------------------------------------------
(* Claims about SyncFinder::search, checked under SpecSearch *)

\* C6: the scores search returns - indices, qualities, block types and their
\* order - are the same for every order in which the coarse-search and the
\* refinement jobs complete and append their results: they are the scores of
\* the run in which every job completes in the order it was added.
C6_SearchOrderIndependent ==
  sf_pc = "done" => sync_scores = search_in_order(sf_in)

\* C8: every score search returns has 0 <= index < signal length, and the
\* window of total_frame_count frames that starts at index ends inside the signal.
C8_ScoresInsideSignal ==
  sf_pc = "done" =>
    \A i \in 1..Len(sync_scores) :
      LET index == sync_scores[i].index
      IN  /\ 0 <= index /\ index < sf_in.len
          /\ index + total_frame_count(sf_in.mode) * frame_size <= sf_in.len

\* search has returned, in CLIP mode, a score that refinement moved off the
\* coarse grid
C8_Witness ==
  /\ sf_pc = "done" /\ sf_in.mode = "CLIP"
  /\ \E i \in 1..Len(sync_scores) : sync_scores[i].index % sync_search_step # 0


-----------------------------------------------------------------------------
(* Claims about detect_speed, checked under SpecSpeed *)

\* C7: what detect_speed makes of the scores of a pass - the peaks it keeps
\* for the next pass and the speed it reports for the key - is the same for
\* every order in which the compare jobs complete and append to
\* result_scores, also when two search jobs report the same speed: it is what
\* the pass yields when every job completes in the order of get_jobs.
C7_SpeedOrderIndependent ==
  /\ sp_pc = "selected" =>
        sp_out.scores = select_n_best_scores(results_in_order(sp_in), sp_out.n)
  /\ sp_pc = "reported" =>
        sp_out.speeds = report_speed(results_in_order(sp_in))

\* the jobs completed in another order than that of get_jobs, two jobs of
\* one SpeedSync and two jobs of different SpeedSyncs reported the same speed
\* (none of them found a sync), and a peak was selected
C7_Witness ==
  /\ sp_pc = "selected"
  /\ sp_scores # results_in_order(sp_in)
  /\ \E i, j \in 1..Len(sp_result_scores[1]) :
        i # j /\ sp_result_scores[1][i].speed = sp_result_scores[1][j].speed
  /\ Len(sp_in.centers) = 2
  /\ \E i \in 1..Len(sp_result_scores[1]), j \in 1..Len(sp_result_scores[2]) :
        sp_result_scores[1][i].speed = sp_result_scores[2][j].speed
  /\ \E k \in 1..Len(sp_out.scores) : sp_out.scores[k].quality > 0

-----------------------------------------------------------------------------
(* Claims about detect_speed as a whole, checked under SpecDetect *)

\* the position of a key in key_list (the keys of a list are distinct)
KeyPos(key) == CHOOSE k \in 1..Len(dt_in.keys) : dt_in.keys[k] = key

\* C13: detect_speed returns an entry for a key only if the best quality of
\* the key's scan3 scores exceeds the threshold and its smoothed speed is
\* outside the dead zone around 1.0, the entry carrying that speed; the
\* entries are in key_list order, at most one per key; a key whose estimate
\* is inside the dead zone has no entry.
C13_ReportedSpeeds ==
  dt_pc = "done" =>
    /\ \A i \in 1..Len(dt_results) :
         /\ \E k \in 1..Len(dt_in.keys) : dt_in.keys[k] = dt_results[i].key
         /\ max_quality(dt_in.scan3[KeyPos(dt_results[i].key)]) > speed_sync_threshold
         /\ score_smooth_find_best(dt_in.scan3[KeyPos(dt_results[i].key)]) # UnitSpeed
         /\ dt_results[i].speed =
              score_smooth_find_best(dt_in.scan3[KeyPos(dt_results[i].key)])
    /\ \A i, j \in 1..Len(dt_results) :
         i < j => KeyPos(dt_results[i].key) < KeyPos(dt_results[j].key)
    /\ \A k \in 1..Len(dt_in.keys) :
         score_smooth_find_best(dt_in.scan3[k]) = UnitSpeed
           => \A i \in 1..Len(dt_results) : dt_results[i].key # dt_in.keys[k]

\* of two keys with a quality above the threshold the first has an estimate
\* inside the dead zone, and only the second is returned
C13_Witness ==
  /\ dt_pc = "done"
  /\ Len(dt_in.keys) = 2
  /\ max_quality(dt_in.scan3[1]) > speed_sync_threshold
  /\ score_smooth_find_best(dt_in.scan3[1]) = UnitSpeed
  /\ Len(dt_results) = 1
  /\ dt_results[1].key = dt_in.keys[2]

\* C14: when the signal is shorter than 0.25 seconds, detect_speed returns an
\* empty result for every key list, and has neither built a SpeedSearch nor
\* added a job to the thread pool on the way.
C14_TooShortReturnsEmpty ==
  (dt_pc # "idle" /\ 4 * dt_in.n_frames < SampleRate) =>
    /\ dt_pc \in {"start", "done"}
    /\ dt_searches = <<>>
    /\ dt_jobs = 0
    /\ dt_results = <<>>

\* detect_speed has returned for a signal below 0.25 seconds and two keys
C14_Witness ==
  /\ dt_pc = "done"
  /\ dt_in.n_frames > 0 /\ 4 * dt_in.n_frames < SampleRate
  /\ Len(dt_in.keys) = 2
  /\ dt_results = <<>>

-----------------------------------------------------------------------------
(* Claims about SyncFinder::search over a key list, checked under SpecKeys *)

\* C15: search returns exactly one KeyResult per key of key_list, in
\* key_list order and carrying that key; when the signal holds fewer frames
\* than one search window of total_frame_count frames, every KeyResult has an
\* empty score list, whatever get_n_best is.
C15_OneResultPerKey ==
  sk_pc = "done" =>
    /\ Len(key_results) = Len(sk_in.keys)
    /\ \A k \in 1..Len(sk_in.keys) : key_results[k].key = sk_in.keys[k]
    /\ sk_in.len < total_frame_count(sk_in.mode) * frame_size
         => \A k \in 1..Len(key_results) : key_results[k].sync_scores = <<>>

\* the search proper has returned for two keys, get_n_best > 0 and a signal
\* that is not empty but shorter than the search window
C15_Witness ==
  /\ sk_pc = "done"
  /\ ~sk_in.test_no_sync
  /\ get_n_best > 0
  /\ Len(sk_in.keys) = 2
  /\ sk_in.fc > 0
  /\ sk_in.len < total_frame_count(sk_in.mode) * frame_size
  /\ Len(key_results) = 2
  /\ \A k \in 1..2 : key_results[k].sync_scores = <<>>

-----------------------------------------------------------------------------
(* Claims about the selection steps of search, checked under SpecSelect *)

\* the abs_quality of score i of a list, 0 for a missing neighbour
AbsQ(scores, i) ==
  IF i >= 1 /\ i <= Len(scores) THEN abs_quality(scores[i]) ELSE FracZero

IsLocalMax(scores, i) ==
  /\ FracLe(AbsQ(scores, i - 1), AbsQ(scores, i))
  /\ FracLe(AbsQ(scores, i + 1), AbsQ(scores, i))

\* the number of scores right before score i that are local maxima, one after
\* the other
MaximaBefore(scores, i) ==
  Cardinality({ r \in 1..(i - 1) : \A m \in 1..r : IsLocalMax(scores, i - m) })

\* the scores of a list at the positions of a set, in the order of the list
ScoresAt(scores, positions) ==
  LET pos == SelectSeq([i \in 1..Len(scores) |-> i], LAMBDA i : i \in positions)
  IN  [k \in 1..Len(pos) |-> scores[pos[k]]]

\* C19 as stated: sync_select_local_maxima retains score i if and only if
\* its abs_quality is >= that of both neighbours, a missing neighbour
\* counting as 0, also in lists with equal neighbouring qualities.
C19_Original_LocalMaxima ==
  sl_pc = "mask" =>
    sl_scores = ScoresAt(sl_prev, { i \in 1..Len(sl_prev) : IsLocalMax(sl_prev, i) })

\* C19 (amended): sync_select_local_maxima retains score i if and only if
\* its abs_quality is >= that of both neighbours, a missing neighbour
\* counting as 0, and the score before it was not retained: of scores that
\* are local maxima one after the other (their qualities are equal) the
\* first, the third, ... are retained.
C19_LocalMaximaSkip ==
  sl_pc = "mask" =>
    sl_scores = ScoresAt(sl_prev, { i \in 1..Len(sl_prev) :
                                      /\ IsLocalMax(sl_prev, i)
                                      /\ MaximaBefore(sl_prev, i) % 2 = 0 })

\* a list of three scores of equal quality went in, the first and the third
\* came out
C19_Witness ==
  /\ sl_pc = "mask"
  /\ Len(sl_prev) = 3
  /\ \A i \in 1..3 : FracEq(abs_quality(sl_prev[i]), FracInt(MaxRaw))
  /\ sl_scores = <<sl_prev[1], sl_prev[3]>>

\* how often a score is in a list
CountIn(scores, score) == Cardinality({ i \in 1..Len(scores) : scores[i] = score })

\* the number of scores of a list with an abs_quality above a value
CountAbove(scores, value) ==
  Cardinality({ i \in 1..Len(scores) : FracLt(value, abs_quality(scores[i])) })

\* the threshold of the last step, if that was sync_select_threshold_and_n_best
LastThreshold ==
  IF sl_pc = "truncate" THEN FracNorm(3 * sync_threshold2, 4) ELSE FracInt(sync_threshold2)

\* C18: sync_select_threshold_and_n_best(scores, threshold) leaves the scores
\* in descending abs_quality order and keeps the first
\* max(k, min(|scores|, get_n_best)) of them, k being the number of scores
\* with abs_quality > threshold: what is kept are scores of the input, as
\* many as that, and of every quality as many as the best of the input hold.
C18_ThresholdAndNBest ==
  sl_pc \in {"truncate", "sort"} =>
    LET k    == CountAbove(sl_prev, LastThreshold)
        keep == Max(k, Min(Len(sl_prev), get_n_best))
    IN  /\ \A i \in 1..(Len(sl_scores) - 1) :
             FracLe(abs_quality(sl_scores[i + 1]), abs_quality(sl_scores[i]))
        /\ Len(sl_scores) = keep
        /\ \A i \in 1..Len(sl_scores) :
             CountIn(sl_scores, sl_scores[i]) <= CountIn(sl_prev, sl_scores[i])
        /\ \A i \in 1..Len(sl_prev) :
             CountAbove(sl_scores, abs_quality(sl_prev[i]))
               = Min(keep, CountAbove(sl_prev, abs_quality(sl_prev[i])))
        /\ CountAbove(sl_scores, LastThreshold) = k

\* fewer scores than get_n_best were above the threshold, more than
\* get_n_best went in, and get_n_best were kept, one of them not above it
C18_Witness ==
  /\ sl_pc = "truncate"
  /\ get_n_best > 0
  /\ CountAbove(sl_prev, LastThreshold) < get_n_best
  /\ Len(sl_prev) > get_n_best
  /\ Len(sl_scores) = get_n_best
  /\ CountAbove(sl_scores, LastThreshold) < Len(sl_scores)

-----------------------------------------------------------------------------
(* Claims about select_n_best_scores, checked under SpecSpeed *)

\* the scores of the pass, sorted by speed
SpeedSorted == StableSort(sp_scores, speed_less)

\* the quality of score x of a list, 0 for a missing neighbour
QualityAt(scores, x) == IF x >= 1 /\ x <= Len(scores) THEN scores[x].quality ELSE 0

IsPeak(scores, x) ==
  /\ QualityAt(scores, x - 1) <= QualityAt(scores, x)
  /\ QualityAt(scores, x) >= QualityAt(scores, x + 1)

\* the number of scores right before score x that meet the comparison, one
\* after the other
PeaksBefore(scores, x) ==
  Cardinality({ r \in 1..(x - 1) : \A m \in 1..r : IsPeak(scores, x - m) })

QualityAbove(scores, q) == Cardinality({ i \in 1..Len(scores) : scores[i].quality > q })

\* a list holds the n scores of highest quality of the peaks (all of them if
\* there are at most n), in descending quality order
BestOfPeaks(out, peaks, n) ==
  /\ Len(out) = Min(n, Len(peaks))
  /\ \A i \in 1..(Len(out) - 1) : out[i].quality >= out[i + 1].quality
  /\ \A i \in 1..Len(out) : CountIn(out, out[i]) <= CountIn(peaks, out[i])
  /\ \A q \in 0..MaxQuality : QualityAbove(out, q) = Min(Len(out), QualityAbove(peaks, q))

\* C20 as stated: select_n_best_scores treats a score of the speed-sorted
\* list as a peak if and only if the qualities of both neighbours are <= its
\* quality, and returns the n peaks of highest quality, all if there are at
\* most n, in descending quality order.
C20_Original_SelectNBest ==
  sp_pc = "selected" =>
    BestOfPeaks(sp_out.scores,
                ScoresAt(SpeedSorted, { x \in 1..Len(SpeedSorted) : IsPeak(SpeedSorted, x) }),
                sp_out.n)

\* C20 (amended): select_n_best_scores treats a score of the speed-sorted
\* list as a peak if and only if the qualities of both neighbours are <= its
\* quality and the score before it was not treated as a peak (of a double
\* peak the score of lower speed is the peak), and returns the n peaks of
\* highest quality, all if there are at most n, in descending quality order.
C20_SelectNBestSkip ==
  sp_pc = "selected" =>
    BestOfPeaks(sp_out.scores,
                ScoresAt(SpeedSorted, { x \in 1..Len(SpeedSorted) :
                                          /\ IsPeak(SpeedSorted, x)
                                          /\ PeaksBefore(SpeedSorted, x) % 2 = 0 }),
                sp_out.n)

\* a double peak after a lower score: both scores meet the comparison, the
\* one of lower speed is returned and the other is not, although n allows more
C20_Witness ==
  /\ sp_pc = "selected"
  /\ Len(sp_out.scores) < sp_out.n
  /\ \E x \in 2..(Len(SpeedSorted) - 1) :
       /\ IsPeak(SpeedSorted, x) /\ IsPeak(SpeedSorted, x + 1)
       /\ SpeedSorted[x].quality > SpeedSorted[x - 1].quality
       /\ CountIn(sp_out.scores, SpeedSorted[x]) = 1
       /\ CountIn(sp_out.scores, SpeedSorted[x + 1]) = 0

-----------------------------------------------------------------------------
(* Claims about get_sync_bits, checked under SpecBits *)

Ascending(bands) == \A k \in 1..(Len(bands) - 1) : bands[k] < bands[k + 1]

\* the entry of the second block to an entry of the first
SecondBlock(entry) == FrameBit(entry.frame + first_block_end, entry.down, entry.up)

\* C17: get_sync_bits(key, BLOCK) returns sync_bits lists of
\* sync_frames_per_bit FrameBits, get_sync_bits(key, CLIP) sync_bits lists of
\* 2 * sync_frames_per_bit FrameBits: every entry (frame, up, down) of the
\* BLOCK list and with it the entry (frame + block length, down, up).  In
\* both modes each list is ordered by non-decreasing frame, and every up and
\* down list is ascending and up is as long as down.
C17_SyncBitsPattern ==
  gs_pc = "done" =>
    LET block == get_sync_bits(gs_in.key, "BLOCK")
    IN  /\ Len(gs_sync_bits) = sync_bits
        /\ \A b \in 1..Len(gs_sync_bits) :
             LET list == gs_sync_bits[b]
             IN  /\ Len(list) = sync_frames_per_bit * (IF gs_in.mode = "CLIP" THEN 2 ELSE 1)
                 /\ \A i \in 1..(Len(list) - 1) : list[i].frame <= list[i + 1].frame
                 /\ \A i \in 1..Len(list) :
                      /\ Len(list[i].up) = Len(list[i].down)
                      /\ Ascending(list[i].up) /\ Ascending(list[i].down)
                 /\ gs_in.mode = "CLIP" =>
                      /\ Len(block[b]) = sync_frames_per_bit
                      /\ \A i \in 1..Len(block[b]) :
                           /\ CountIn(list, block[b][i]) = CountIn(block[b], block[b][i])
                           /\ CountIn(list, SecondBlock(block[b][i]))
                                = CountIn(block[b], block[b][i])
                      /\ \A i \in 1..Len(list) :
                           \E j \in 1..Len(block[b]) :
                             list[i] \in {block[b][j], SecondBlock(block[b][j])}

\* a CLIP pattern of a key that draws the bands of a sync frame out of order
\* and whose sync frames do not come in the order of the block
C17_Witness ==
  /\ gs_pc = "done"
  /\ gs_in.mode = "CLIP"
  /\ \E i \in SyncFrameIndices :
       /\ ~Ascending(gs_in.key.up_down[i].up)
       /\ gs_in.key.up_down[i].up # gs_in.key.up_down[i].down
  /\ \E i \in SyncFrameIndices :
       i + 1 \in SyncFrameIndices /\ gs_in.key.sync_frame[i] > gs_in.key.sync_frame[i + 1]
  /\ Len(gs_sync_bits) = sync_bits
  /\ Len(gs_sync_bits[1]) = 2 * sync_frames_per_bit

-----------------------------------------------------------------------------
(* Claims about the termination of split_jobs, checked under SpecSplitFair *)

\* C29: for every J >= 0 and T >= 1, split_jobs(J, T) terminates, its
\* assertion (0 <= j <= remaining jobs) never fails, every batch it emits is
\* at least 1, and split_jobs(0, T) is the empty list.
C29_SplitTerminates ==
  /\ <>(sj_pc = "return")
  /\ [](/\ sj.ok
        /\ \A i \in 1..Len(sj.split) : sj.split[i] >= 1
        /\ (sj_pc = "return" /\ sj_in[1] = 0) => sj.split = <<>>)

\* a call that went through the loop, the halving step and the last
\* statement, each of which pushed a batch, has returned
C29_Witness ==
  /\ sj_pc = "return"
  /\ sj.ok
  /\ sj_in[1] > 2 * sj_in[2]
  /\ sj_in[1] % sj_in[2] # 0
  /\ Len(sj.split) >= 3

-----------------------------------------------------------------------------
(* Claims about search_refine, checked under SpecSearch *)

\* the fine positions of a candidate
FineGrid(score) ==
  LET start == Max(score.index - sync_search_step, 0)
  IN  { p \in start..(score.index + sync_search_step) : (p - start) % sync_search_fine = 0 }

\* the window of total_frame_count frames at a position fits inside the signal
WindowFits(p) == p + total_frame_count(sf_in.mode) * frame_size <= sf_in.len

\* the distances from the local mean that the fine search of a candidate sees
FineDistances(score) ==
  { abs_quality(score) } \cup
  { FracAbs(FracSub(sync_decode(sf_in, p), score.local_mean)) :
      p \in { g \in FineGrid(score) : WindowFits(g) } }

RefinedFrom(score, refined) ==
  /\ refined.local_mean = score.local_mean
  /\ refined.index \in FineGrid(score)
  /\ \E d \in FineDistances(score) :
       /\ FracEq(abs_quality(refined), d)
       /\ \A o \in FineDistances(score) : FracLe(o, d)
  /\ FracLe(abs_quality(score), abs_quality(refined))

\* C21: search_refine replaces every coarse candidate by exactly one refined
\* score: its index lies in [max(index - sync_search_step, 0), index +
\* sync_search_step] on the sync_search_fine grid, its |raw_quality -
\* local_mean| is the maximum over the coarse value and all fine positions
\* whose window fits inside the signal, and its local_mean is that of the
\* candidate; the refined list is sorted by index.
C21_RefineOneEach ==
  [][(sf_pc = "refine_wait" /\ sf_pc' = "threshold2") =>
       /\ Len(key_scores') = Len(key_scores)
       /\ \A i \in 1..(Len(key_scores') - 1) : key_scores'[i].index <= key_scores'[i + 1].index
       /\ \E f \in [1..Len(key_scores) -> 1..Len(key_scores)] :
            /\ \A i, j \in 1..Len(key_scores) : i # j => f[i] # f[j]
            /\ \A i \in 1..Len(key_scores) : RefinedFrom(key_scores[i], key_scores'[f[i]])
    ]_vars

\* search_refine has returned two scores, one of them moved off the coarse
\* grid by the fine search
C21_Witness ==
  /\ sf_pc = "threshold2"
  /\ Len(key_scores) >= 2
  /\ \E i \in 1..Len(key_scores) : key_scores[i].index % sync_search_step # 0

-----------------------------------------------------------------------------
(* Claims about search_approx and sync_fft_parallel, checked under SpecSearch *)

\* the coarse shifts of search_approx
SyncShifts == { s \in 0..(frame_size - 1) : s % sync_search_step = 0 }

\* how many of the scores have an index
CountIndex(scores, index) == Cardinality({ i \in 1..Len(scores) : scores[i].index = index })

\* C22: search_approx emits exactly one SearchScore per key, per coarse shift
\* s and per start_frame for which start_frame + total_frame_count frames fit
\* inside the FFT output computed for that shift, the start_frame whose
\* window ends exactly at the last FFT frame included, with index =
\* start_frame * frame_size + s; no index is emitted twice.
C22_ApproxOnePerStartFrame ==
  sf_pc = "approx_sort" =>
    /\ \A s \in SyncShifts : \A start_frame \in 0..MaxFrames :
         CountIndex(key_scores, start_frame * frame_size + s)
           = IF start_frame + total_frame_count(sf_in.mode) <= Len(sync_fft_parallel(sf_in, s))
               THEN 1 ELSE 0
    /\ \A i \in 1..Len(key_scores) :
         /\ key_scores[i].index % frame_size \in SyncShifts
         /\ key_scores[i].index \div frame_size \in 0..MaxFrames

-----------------------------------------------------------------------------
(* Claims about sync_fft_parallel, checked under SpecFFT *)

\* the frames of the chunk a frame lies in, as its job computes them
ChunkFrames(frame) ==
  LET start == (frame \div frames_per_job) * frames_per_job
  IN  Min(ff_in.fc - 1 - start, frames_per_job)

\* the frames a job computes: those of a chunk whose frames, the last frame
\* of the signal left out, all lie inside the signal at the shift
ComputedFrames ==
  { f \in 0..(ff_in.fc - 1) :
      LET start == (f \div frames_per_job) * frames_per_job
      IN  /\ f < start + ChunkFrames(f)
          /\ ff_in.index + (start + ChunkFrames(f)) * frame_size <= ff_in.len }

RowsAscending == \A i \in 1..(Len(fft_out_db) - 1) : fft_out_db[i] < fft_out_db[i + 1]

RowsOf(frames) == { ff_in.index + f * frame_size : f \in frames }

-----------------------------------------------------------------------------
(* Claims about the speeds of a scan pass, checked under SpecJobs *)

\* how many search jobs of the pass test a speed
TimesTested(speed) ==
  SeqSum([i \in 1..Len(gj_jobs) |->
            Cardinality({ k \in 1..Len(gj_jobs[i]) : gj_jobs[i][k] = speed })])

\* n_center_steps * (2 * n_steps + 1) + n_steps
ScanRange == gj_in.n_center_steps * (2 * gj_in.n_steps + 1) + gj_in.n_steps

\* C24: in one scan pass around a speed v with (step, n_steps,
\* n_center_steps) the search jobs test the speeds v * step^e for exactly
\* the integers e from -(n_center_steps * (2 * n_steps + 1) + n_steps) to
\* +(n_center_steps * (2 * n_steps + 1) + n_steps), each exponent once, by
\* 2 * n_center_steps + 1 SpeedSync objects of 2 * n_steps + 1 search jobs.
C24_ScanTilesRange ==
  gj_pc = "done" =>
    /\ Len(speed_sync) = 2 * gj_in.n_center_steps + 1
    /\ Len(gj_jobs) = Len(speed_sync)
    /\ \A i \in 1..Len(gj_jobs) : Len(gj_jobs[i]) = 2 * gj_in.n_steps + 1
    /\ \A e \in (-ScanRange - 2)..(ScanRange + 2) :
         TimesTested(gj_in.speed + e) = IF -ScanRange <= e /\ e <= ScanRange THEN 1 ELSE 0
    /\ \A i \in 1..Len(gj_jobs) : \A k \in 1..Len(gj_jobs[i]) :
         gj_jobs[i][k] - gj_in.speed \in (-ScanRange)..ScanRange

\* a pass with several centers and several steps to each side of a center
C24_Witness ==
  /\ gj_pc = "done"
  /\ gj_in.n_steps >= 1 /\ gj_in.n_center_steps >= 1
  /\ Len(gj_jobs) >= 3 /\ Len(gj_jobs[1]) >= 3

-----------------------------------------------------------------------------
(* Claims about the jobs of run_search, checked under SpecRun *)

\* what a step may do to the sync_matrix of a SpeedSync: the prepare job
\* begins, the prepare job ends, free_memory
MatrixSteps == { <<"empty", "writing">>, <<"writing", "ready">>, <<"ready", "freed">> }

\* C25: when run_search returns, the prepare job of every SpeedSync, each of
\* its 2 * n_steps + 1 search jobs and its free_memory hook have run exactly
\* once (start == jobs.size() holds), and its result_scores holds exactly
\* 2 * n_steps + 1 scores, one of every search job, under every interleaving
\* of the workers.
C25_RunSearchAllOnce ==
  /\ [](rs_pc # "assert_failed")
  /\ [](rs_pc = "done" =>
          /\ rs_loop.start = rs_cfg.n_jobs
          /\ pool_queue = <<>> /\ pool_running = {}
          /\ \A i \in Syncs(rs_cfg.n_jobs) :
               /\ sync_matrix[i] = "freed"
               /\ Len(result_scores[i]) = 2 * NSteps + 1
               /\ \A p \in SearchSteps :
                    Cardinality({ k \in 1..Len(result_scores[i]) : result_scores[i][k] = p }) = 1)
  /\ [][\A i \in Syncs(rs_cfg.n_jobs) :
          sync_matrix'[i] # sync_matrix[i] => <<sync_matrix[i], sync_matrix'[i]>> \in MatrixSteps]_vars

\* run_search has returned after several batches on several threads, and
\* the search jobs of a SpeedSync did not finish in the order they were added
C25_Witness ==
  /\ rs_pc = "done"
  /\ rs_cfg.n_threads >= 2 /\ rs_cfg.n_jobs > rs_cfg.n_threads
  /\ \E i \in Syncs(rs_cfg.n_jobs) :
       /\ Len(result_scores[i]) = 2 * NSteps + 1
       /\ result_scores[i][1] > result_scores[i][2]

-----------------------------------------------------------------------------
(* Claims about the centers of the next pass, checked under SpecSpeed *)

\* the speeds the search jobs of the pass tested: center * relative_speed
TestedSpeeds ==
  { sp_in.centers[i] + p : i \in 1..Len(sp_in.centers), p \in SearchSteps }

\* C26: every speed detect_speed uses as a center of scan2 or scan3 - the
\* speed of a score select_n_best_scores kept - is a speed a search job of
\* the pass before tested and is therefore strictly positive, also for a
\* signal whose sync quality is 0 everywhere.
C26_CentersWereTested ==
  sp_pc = "selected" =>
    \A i \in 1..Len(sp_out.scores) :
      /\ sp_out.scores[i].speed \in TestedSpeeds
      /\ sp_out.scores[i].speed > 0

\* C27: select_n_best_scores applied to a non-empty list of scores with
\* non-negative qualities and n >= 1 returns a non-empty list whose first
\* element has the maximum quality of the input, so that scores[0] exists
\* when scan3 is centred.
C27_BestScoreKept ==
  (sp_pc = "selected" /\ sp_scores # <<>> /\ sp_out.n >= 1
     /\ \A i \in 1..Len(sp_scores) : sp_scores[i].quality >= 0) =>
    /\ sp_out.scores # <<>>
    /\ sp_out.scores[1].quality = max_quality(sp_scores)

\* the selection that centres scan3 (n = 1) on scores whose maximum quality
\* is held by two neighbours of the speed-sorted list
C27_Witness ==
  /\ sp_pc = "selected" /\ sp_out.n = 1
  /\ Len(sp_out.scores) = 1
  /\ max_quality(sp_scores) > 0
  /\ \E x \in 1..(Len(SpeedSorted) - 1) :
       /\ SpeedSorted[x].quality = max_quality(sp_scores)
       /\ SpeedSorted[x + 1].quality = max_quality(sp_scores)
  /\ \E y \in 1..Len(SpeedSorted) : SpeedSorted[y].quality < max_quality(sp_scores)

-----------------------------------------------------------------------------
(* Claims about compare_bits, checked under SpecCmp *)

\* C28: in compare_bits, for every block number, sync bit and CmpState
\* visited between begin and end, the row index (offset + frame_offset) >> 16
\* used to read sync_matrix is at least 0 and less than sync_matrix.rows(),
\* and begin never passes end, for every relative speed and every matrix
\* size, a matrix with 0 rows included.
C28_RowInsideMatrix ==
  /\ cb_begin <= cb_end
  /\ \A index \in cb_rows : 0 <= index /\ index < cb_in.rows

\* at a speed other than 1, in the second block, both cursors have cut
\* states off and rows of the matrix are read between them
C28_Witness ==
  /\ cb_pc = "bits" /\ cb_block = 1 /\ cb_mi > 0
  /\ cb_in.speed # <<1, 1>>
  /\ 0 < cb_begin /\ cb_begin < cb_end /\ cb_end < pad_start
  /\ cb_rows # {}

-----------------------------------------------------------------------------
(* Claims about StdoutWavOutputStream, checked under SpecWav *)

CallOf(op) == ws_calls' = ws_calls + 1 /\ ws_last'.op = op

\* C30: an open call that returns an error leaves the stream in state NEW,
\* so a following close writes no padding byte and returns no error; after a
\* successful open, close writes the single padding byte only when the
\* declared data size is odd and moves the state to CLOSED, and any further
\* close writes nothing.
C30_OpenCloseStates ==
  [][/\ CallOf("open") /\ ws_last'.ret = "ERROR" => m_state' = "NEW"
     /\ CallOf("close") /\ m_state = "NEW" =>
          ws_last'.wrote = 0 /\ ws_last'.ret = "NONE" /\ ws_stdout' = ws_stdout
     /\ CallOf("close") /\ m_state # "NEW" /\ ws_closes = 0 =>
          /\ ws_last'.wrote = 1 => data_size(ws_in) % 2 = 1
          /\ m_state' = "CLOSED"
     /\ CallOf("close") /\ m_state # "NEW" /\ ws_closes > 0 =>
          ws_last'.wrote = 0 /\ ws_stdout'.padding = ws_stdout.padding]_vars

=============================================================================
